---------------------------- MODULE Spec2Model ----------------------------
(***************************************************************************)
(* State-machine model of the step interpreters and playback schedulers of *)
(* game_automation_script:                                                 *)
(*   AutomationScript  (src/src/automation_script.py)  variables as_*      *)
(*   ScriptExecutor    (src/src/core/script.py)        variables se_*      *)
(*   InputPlayer       (src/src/core/player.py)        variables ip_*      *)
(*   EventPlayer       (src/src/event_player.py)       variables ep_*      *)
(*   _resolve_value    (src/src/automation_script.py)  variables rv_*      *)
(* One behaviour exercises one engine (variable engine); of the other      *)
(* engines only the player that a replay step drives as its sub-session    *)
(* moves (EventPlayer under AutomationScript, InputPlayer under            *)
(* ScriptExecutor).                                                        *)
(***************************************************************************)
EXTENDS Integers, Sequences, FiniteSets, TLC

VARIABLES
    engine,             \* which engine this behaviour exercises
    maxStarts,          \* how many start calls the callers may issue
    starts,             \* start calls accepted so far (history)
    stopIssued,         \* a stop call found the run active (history)
    stopInPause,        \* that stop call found the run paused (history)
    pauseIssued,        \* a pause call has been issued (history)
    \* ---- AutomationScript
    as_steps,           \* script_data["steps"]
    as_running,         \* self.running
    as_paused,          \* self.paused
    as_current_step,    \* self.current_step
    as_variables,       \* self.variables
    as_loop_counters,   \* self.loop_counters
    as_pc,              \* position of each thread inside run_script
    as_step,            \* per thread: index at which the local `step` was fetched
    as_result,          \* per thread: return values of run_script
    as_trace,           \* history: indices whose handler was invoked, in order
    as_last,            \* history: what the last executed step did
    as_script_end,      \* history: arguments of on_script_end
    as_rejected,        \* history: a run_script call returned False at entry
    \* ---- ScriptExecutor
    se_script,          \* self.script.steps
    se_executing,       \* self.executing
    se_paused,          \* self.paused
    se_current_step_index, \* self.current_step_index
    se_variables,       \* self.variables
    se_callbacks,       \* the execute call whose callbacks are installed
    se_cpc,             \* position of each caller inside execute
    se_wpc,             \* position of each worker inside _execute_thread
    se_step_index,      \* per worker: local step_index
    se_i,               \* per worker: loop variable i of _execute_loop
    se_trace,           \* history: indices whose handler was invoked, in order
    se_iters,           \* history: loop_step executions of the last loop step
    se_last,            \* history: what the last executed step did
    se_complete,        \* history: arguments of on_script_complete
    se_rejected,        \* history: execute calls that returned False
    se_rec,             \* per worker: the sub-session whose on_complete sets its `completed`
    se_lock,            \* holder of ScriptExecutor.lock: 0 when free, else the worker
    reentered,          \* history: a control call made inside a callback has returned
    loaded,             \* history: a load call has arrived while a session was active
    \* ---- InputPlayer
    ip_events,          \* self.events (timestamps)
    ip_playing,         \* self.playing
    ip_paused,          \* self.paused
    ip_speed,           \* self.speed, in tenths
    ip_current_index,   \* self.current_index
    ip_callbacks,       \* the start_playback call whose callbacks are installed
    ip_cpc,             \* position of each caller inside start_playback
    ip_wpc,             \* position of each worker inside _playback_thread
    ip_event,           \* per worker: local current_index of the fetched event
    ip_wait,            \* per worker: the wait computed before the next event
    ip_dispatched,      \* history: <<worker, index, raised>> of every dispatched event
    ip_complete,        \* history: workers that invoked on_complete
    ip_rejected,        \* history: start_playback calls that returned False
    ip_lock,            \* holder of InputPlayer.lock: 0 when free, else the worker
    \* ---- EventPlayer
    ep_events,          \* self.events (the "time" field of each event)
    ep_playing,         \* self.playing
    ep_paused,          \* self.paused
    ep_stop_event,      \* self._stop_event
    ep_speed,           \* self.speed, in tenths
    ep_pc,              \* position of the worker inside _playback_loop
    ep_cpc,             \* position of the caller inside stop_playback
    ep_i,               \* loop variable i of _playback_loop
    ep_last_event_time, \* local last_event_time
    ep_wait,            \* history: the wait computed before the last event
    ep_dispatched,      \* history: <<index, raised>> of every dispatched event
    ep_on_stop,         \* history: invocations of on_stop
    ep_on_error,        \* history: invocations of on_error
    \* ---- AutomationScript._resolve_value
    rv_value,           \* the argument: a string of tokens, or a value that is no string
    rv_variables,       \* self.variables
    rv_result,          \* history: what the call returned or raised
    \* ---- InputRecorder.add_event and the replay of its list by InputPlayer
    rc_input,           \* timestamps of the events the hooks deliver, in tenths of a second
    rc_speed,           \* InputPlayer.speed of the replay, in tenths
    rc_events,          \* InputRecorder.events, then InputPlayer.events
    rc_last_event_time, \* InputRecorder.last_event_time
    rc_added,           \* how many delivered events add_event has taken
    rc_index,           \* InputPlayer.current_index
    rc_slept,           \* history: the time.sleep arguments of the replay, summed
    rc_pc               \* "record", "replay" or "done"

asVars == <<as_steps, as_running, as_paused, as_current_step, as_variables,
            as_loop_counters, as_pc, as_step, as_result, as_trace, as_last,
            as_script_end, as_rejected>>
ctlVars == <<engine, maxStarts, starts, stopIssued, stopInPause, pauseIssued>>
seVars == <<se_script, se_executing, se_paused, se_current_step_index, se_variables,
            se_callbacks, se_cpc, se_wpc, se_step_index, se_i, se_trace, se_iters,
            se_last, se_complete, se_rejected, se_rec, se_lock, reentered, loaded>>
ipVars == <<ip_events, ip_playing, ip_paused, ip_speed, ip_current_index, ip_callbacks,
            ip_cpc, ip_wpc, ip_event, ip_wait, ip_dispatched, ip_complete, ip_rejected,
            ip_lock>>
epVars == <<ep_events, ep_playing, ep_paused, ep_stop_event, ep_speed, ep_pc, ep_cpc,
            ep_i, ep_last_event_time, ep_wait, ep_dispatched, ep_on_stop, ep_on_error>>
rvVars == <<rv_value, rv_variables, rv_result>>
rcVars == <<rc_input, rc_speed, rc_events, rc_last_event_time, rc_added, rc_index,
            rc_slept, rc_pc>>
fnVars == <<rvVars, rcVars>>
vars == <<ctlVars, asVars, seVars, ipVars, epVars, fnVars>>

-----------------------------------------------------------------------------
(* Bounds of the model *)
MaxSteps == 3       \* longest generated program
MaxCount == 2       \* largest count of a generated count loop
MaxTrace == 7       \* handler invocations recorded per behaviour
MaxCalls == 2       \* start calls (and so worker threads) of a multi-start behaviour
MaxEvents == 2      \* longest generated event list
MaxTime == 2        \* largest generated timestamp
MaxPlaceholders == 2 \* most ${...} placeholders in a generated string

Threads == 1..MaxCalls

-----------------------------------------------------------------------------
(* Steps of an AutomationScript program.  An optional field is <<>> when   *)
(* the key is absent (or None) and <<v>> when it holds v.                  *)
Has(f) == f /= <<>>
Val(f) == f[1]

\* Python's list indexing steps[i]: a negative i counts from the end
PyIndexable(seq, i) == -Len(seq) <= i /\ i < Len(seq)
PyIndex(seq, i) == IF i >= 0 THEN seq[i + 1] ELSE seq[Len(seq) + i + 1]
PyPos(seq, i) == IF i >= 0 THEN i ELSE Len(seq) + i

(* AutomationScript._resolve_value.  A string is a sequence of tokens: the *)
(* openers "${", the closers "}", the separators ".", "[" and "]", names,  *)
(* integer literals and plain text.  A value of the variable bag is a      *)
(* record of its Python kind.                                              *)
PyVal(kind, num, text, keys, items) ==
    [kind |-> kind, num |-> num, text |-> text, keys |-> keys, items |-> items]
PyInt(n) == PyVal("int", n, <<>>, <<>>, <<>>)
PyText(chars) == PyVal("str", 0, chars, <<>>, <<>>)
PyList(items) == PyVal("list", 0, <<>>, <<>>, items)
PyDict(keys, items) == PyVal("dict", 0, <<>>, keys, items)
PyNone == PyVal("none", 0, <<>>, <<>>, <<>>)

\* the integer an index text denotes; int() raises ValueError on any other text
RV_IntTokens ==
    [t \in {"0", "1", "5", "-1"} |->
        IF t = "0" THEN 0 ELSE IF t = "1" THEN 1 ELSE IF t = "5" THEN 5 ELSE -1]

\* the variable bags and the strings the calls are made with
RV_Bags ==
    {[n |-> PyInt(5), s |-> PyText(<<"a", "b">>),
      lst |-> PyList(<<PyInt(7), PyInt(8)>>),
      map |-> PyDict(<<"k">>, <<PyInt(9)>>),
      deep |-> PyDict(<<"k">>, <<PyList(<<PyInt(3), PyInt(4)>>)>>)]}
RV_Names == {"n", "s", "lst", "map", "zz"}
RV_Accessors == {<<>>, <<".", "k">>, <<".", "q">>, <<"[", "0", "]">>, <<"[", "5", "]">>,
                 <<"[", "k", "]">>}
RV_Paths == {<<nm>> \o acc : nm \in RV_Names, acc \in RV_Accessors}
                \cup {<<"lst", "[", "-1", "]">>, <<"lst", "[", "0", "]", "[", "0", "]">>,
                      <<"deep", ".", "k", "[", "1", "]">>, <<"deep", "[", "1", "]", ".", "k">>}
RV_Placeholder(path) == <<"${">> \o path \o <<"}">>
RECURSIVE RV_Join(_)
RV_Join(paths) ==
    IF paths = <<>> THEN <<>>
    ELSE RV_Placeholder(Head(paths)) \o <<"_">> \o RV_Join(Tail(paths))
\* the placeholders that follow the first one: one that resolves, one that
\* stays literal, one with an index accessor on a scalar
RV_LaterPaths == {<<"map", ".", "k">>, <<"zz">>, <<"n", "[", "0", "]">>}
RV_PathLists ==
    {<<p>> \o later : p \in RV_Paths,
                      later \in UNION {[1..k -> RV_LaterPaths] : k \in 0..(MaxPlaceholders - 1)}}
\* the arguments that are no strings (line 929 returns them as they are)
RV_NonStrings == {PyInt(7), PyList(<<PyText(<<"${", "n", "}">>)>>)}
RV_Values ==
    {PyText(RV_Join(ps)) : ps \in RV_PathLists}
        \cup {PyText(t) : t \in {<<"${", "}">>, <<"${", "n">>, <<"_">>, <<"${", "${", "n", "}">>}}
        \cup RV_NonStrings

\* re.split(r'[\.\[]', var_path)
RECURSIVE RV_Split(_, _)
RV_Split(path, part) ==
    IF path = <<>> THEN <<part>>
    ELSE IF Head(path) \in {".", "["} THEN <<part>> \o RV_Split(Tail(path), <<>>)
    ELSE RV_Split(Tail(path), Append(part, Head(path)))

\* str(result)
RECURSIVE PyStr(_)
RECURSIVE PyStrItems(_)
PyStrItems(items) ==
    IF items = <<>> THEN <<>>
    ELSE PyStr(Head(items))
            \o (IF Len(items) = 1 THEN <<>> ELSE <<", ">> \o PyStrItems(Tail(items)))
PyStr(v) ==
    CASE v.kind = "int" -> <<ToString(v.num)>>
      [] v.kind = "str" -> v.text
      [] v.kind = "list" -> <<"[">> \o PyStrItems(v.items) \o <<"]">>
      [] OTHER -> <<"{", "'" \o v.keys[1] \o "'", ": ">> \o PyStr(v.items[1]) \o <<"}">>

\* result[index], line 916: the element, or the exception Python raises
RV_Index(v, index) ==
    CASE v.kind = "list" ->
            IF -Len(v.items) <= index /\ index < Len(v.items)
            THEN [exc |-> "", val |-> PyIndex(v.items, index)]
            ELSE [exc |-> "IndexError", val |-> v]
      [] v.kind = "str" ->
            IF -Len(v.text) <= index /\ index < Len(v.text)
            THEN [exc |-> "", val |-> PyText(<<PyIndex(v.text, index)>>)]
            ELSE [exc |-> "IndexError", val |-> v]
      [] v.kind = "dict" -> [exc |-> "KeyError", val |-> v]    \* the keys are strings
      [] OTHER -> [exc |-> "TypeError", val |-> v]

\* result[part], line 921
RV_Key(v, part) ==
    IF v.kind /= "dict" THEN [exc |-> "TypeError", val |-> v]
    ELSE IF Len(part) = 1 /\ \E k \in 1..Len(v.keys) : v.keys[k] = part[1]
    THEN [exc |-> "", val |-> v.items[CHOOSE k \in 1..Len(v.keys) : v.keys[k] = part[1]]]
    ELSE [exc |-> "KeyError", val |-> v]

\* replace_var lines 912-925: the for loop over parts[1:].  The outcome is
\* "ok" with the value reached, "literal" (return match.group(0)) or the
\* exception that no except clause of the loop catches.
RECURSIVE RV_Chain(_, _)
RV_Chain(result, parts) ==
    IF parts = <<>> THEN [out |-> "ok", val |-> result]
    ELSE LET part == Head(parts)
         IN  IF part /= <<>> /\ part[Len(part)] = "]"
             THEN LET text == SubSeq(part, 1, Len(part) - 1)
                  IN  IF ~(Len(text) = 1 /\ text[1] \in DOMAIN RV_IntTokens)
                      THEN [out |-> "literal", val |-> result]        \* ValueError
                      ELSE LET r == RV_Index(result, RV_IntTokens[text[1]])
                           IN  IF r.exc = "" THEN RV_Chain(r.val, Tail(parts))
                               ELSE IF r.exc \in {"ValueError", "IndexError"}
                               THEN [out |-> "literal", val |-> result]
                               ELSE [out |-> r.exc, val |-> result]
             ELSE LET r == RV_Key(result, part)
                  IN  IF r.exc = "" THEN RV_Chain(r.val, Tail(parts))
                      ELSE IF r.exc \in {"KeyError", "TypeError"}
                      THEN [out |-> "literal", val |-> result]
                      ELSE [out |-> r.exc, val |-> result]

\* replace_var lines 900-927
replace_var(var_path, variables) ==
    LET parts == RV_Split(var_path, <<>>)
        var_name == parts[1]
    IN  IF ~(Len(var_name) = 1 /\ var_name[1] \in DOMAIN variables)
        THEN [out |-> "literal", val |-> PyInt(0)]
        ELSE RV_Chain(variables[var_name[1]], Tail(parts))

\* the match of r'\${([^}]+)}' that starts at token i: the position of its
\* closer, or 0 when there is no match at i
RV_Match(value, i) ==
    IF value[i] /= "${" THEN 0
    ELSE LET closers == {j \in (i + 1)..Len(value) : value[j] = "}"}
         IN  IF closers = {} THEN 0
             ELSE LET j == CHOOSE c \in closers : \A d \in closers : c <= d
                  IN  IF j = i + 1 THEN 0 ELSE j

\* re.sub(pattern, replace_var, value), line 927: the text built from left
\* to right; an exception of replace_var leaves _resolve_value
RECURSIVE RV_Sub(_, _, _)
RV_Sub(value, i, variables) ==
    IF i > Len(value) THEN [raised |-> "", text |-> <<>>]
    ELSE LET j == RV_Match(value, i)
         IN  IF j = 0
             THEN LET rest == RV_Sub(value, i + 1, variables)
                  IN  [raised |-> rest.raised, text |-> <<value[i]>> \o rest.text]
             ELSE LET r == replace_var(SubSeq(value, i + 1, j - 1), variables)
                      rest == RV_Sub(value, j + 1, variables)
                  IN  IF r.out \notin {"ok", "literal"}
                      THEN [raised |-> r.out, text |-> <<>>]
                      ELSE IF rest.raised /= "" THEN rest
                      ELSE [raised |-> "",
                            text |-> (IF r.out = "ok" THEN PyStr(r.val)
                                      ELSE SubSeq(value, i, j)) \o rest.text]

\* lines 896 and 927-929: isinstance(value, str), otherwise the value itself
_resolve_value(value, variables) ==
    IF value.kind = "str"
    THEN LET r == RV_Sub(value.text, 1, variables)
         IN  [raised |-> r.raised, ret |-> IF r.raised = "" THEN PyText(r.text) ELSE PyNone]
    ELSE [raised |-> "", ret |-> value]

Step(ty, en, nx, onf, th, el, lt, cnt, es, lid, nm, vl) ==
    [type |-> ty, enabled |-> en, next_step |-> nx, on_failure |-> onf,
     then_step |-> th, else_step |-> el, loop_type |-> lt, count |-> PyInt(cnt),
     end_step |-> es, loop_id |-> lid, name |-> nm, value |-> vl, save_to |-> <<>>]

Click(en, nx, onf) == Step("click", en, nx, onf, <<>>, <<>>, "", 0, <<>>, "", "", 0)
Condition(th, el, nx) == Step("condition", TRUE, nx, <<>>, th, el, "", 0, <<>>, "", "", 0)
CountLoop(lid, n, es) == Step("loop", TRUE, <<>>, <<>>, <<>>, <<>>, "count", n, es, lid, "", 0)
WhileLoop(lid, es) == Step("loop", TRUE, <<>>, <<>>, <<>>, <<>>, "while", 0, es, lid, "", 0)
EndLoop(lid) == Step("end_loop", TRUE, <<>>, <<>>, <<>>, <<>>, "", 0, <<>>, lid, "", 0)
\* a count loop whose count parameter is a string (line 799)
CountLoopRef(lid, text, es) == [CountLoop(lid, 0, es) EXCEPT !.count = PyText(text)]
SetVariable(nm, vl) == Step("set_variable", TRUE, <<>>, <<>>, <<>>, <<>>, "", 0, <<>>, "", nm, vl)
FindImage(sv) ==
    [Step("find_image", TRUE, <<>>, <<>>, <<>>, <<>>, "", 0, <<>>, "", "", 0)
        EXCEPT !.save_to = sv]
PlayRecording == Step("play_recording", TRUE, <<>>, <<>>, <<>>, <<>>, "", 0, <<>>, "", "", 0)

\* the time stamps of the events in the recording file a replay step names
RecordingEvents == <<1, 2>>

Opt(S) == {<<>>} \cup {<<v>> : v \in S}

(* Programs the behaviours start from *)
SeqPrograms ==
    UNION {[1..n -> {Click(en, <<>>, <<>>) : en \in BOOLEAN}] : n \in 1..MaxSteps}
JumpPrograms ==
    {<<Click(TRUE, nx, onf)>> \o [i \in 1..(MaxSteps - 1) |-> Click(TRUE, <<>>, <<>>)] :
        nx \in Opt(1..MaxSteps), onf \in Opt({-(MaxSteps + 1), -1, MaxSteps - 1})}
CondPrograms ==
    {<<Condition(<<t>>, <<f>>, nx)>> \o [i \in 1..(MaxSteps - 1) |-> Click(TRUE, <<>>, <<>>)] :
        t \in 0..(MaxSteps - 1), f \in 0..(MaxSteps - 1), nx \in Opt({MaxSteps - 1})}
CountPrograms ==
    {<<CountLoop("main_loop", n, <<2>>), Click(TRUE, <<>>, <<>>),
       EndLoop("main_loop"), Click(TRUE, <<>>, <<>>)>> : n \in 0..MaxCount}
WhilePrograms ==
    {<<WhileLoop("main_loop", <<2>>), Click(TRUE, <<>>, <<>>),
       EndLoop("main_loop"), Click(TRUE, <<>>, <<>>)>>}
VarPrograms ==
    {<<SetVariable("retry_count", 3), Click(TRUE, <<>>, <<>>)>>}

ReplayPrograms ==
    {<<PlayRecording, Click(TRUE, <<>>, <<>>)>>}
\* a disabled first step of each kind, declaring jumps past the second step
DisabledPrograms ==
    {<<[st EXCEPT !.enabled = FALSE], Click(TRUE, <<>>, <<>>), Click(TRUE, <<>>, <<>>)>> :
        st \in {Click(TRUE, <<2>>, <<2>>), Condition(<<2>>, <<2>>, <<2>>),
                SetVariable("retry_count", 3), CountLoop("main_loop", 1, <<2>>),
                FindImage(<<"button_pos">>)}}
FindPrograms ==
    {<<FindImage(sv), Click(TRUE, <<>>, <<>>)>> : sv \in Opt({"button_pos"})}

\* a count loop nested in a count loop; the inner loop carries the outer
\* loop's loop_id or one of its own
NestedPrograms ==
    {<<CountLoop("main_loop", MaxCount, <<4>>), CountLoop(lid, 1, <<3>>),
       Click(TRUE, <<>>, <<>>), EndLoop(lid), EndLoop("main_loop")>> :
        lid \in {"main_loop", "inner"}}
\* EXAMPLE_SCRIPT lines 937-949: the count of the loop is the placeholder of
\* a variable an earlier set_variable step sets to an integer
ExamplePrograms ==
    {<<SetVariable("retry_count", n),
       CountLoopRef("main_loop", RV_Placeholder(<<"retry_count">>), <<3>>),
       Click(TRUE, <<>>, <<>>), EndLoop("main_loop")>> : n \in 1..MaxCount}
\* an end_loop step that meets no frame: no loop step comes before it
OrphanPrograms ==
    {<<SetVariable("retry_count", 3), EndLoop(lid), Click(TRUE, <<>>, <<>>)>> :
        lid \in {"main_loop", ""}}

Programs == SeqPrograms \cup JumpPrograms \cup CondPrograms \cup CountPrograms
            \cup WhilePrograms \cup VarPrograms \cup ReplayPrograms \cup FindPrograms
            \cup DisabledPrograms \cup OrphanPrograms \cup NestedPrograms
            \cup ExamplePrograms

(* Programs of the behaviours with several start calls *)
MultiPrograms ==
    {<<SetVariable("retry_count", 3), Click(TRUE, <<>>, <<>>)>>,
     <<CountLoop("main_loop", 1, <<2>>), Click(TRUE, <<>>, <<>>), EndLoop("main_loop")>>,
     <<PlayRecording>>}

-----------------------------------------------------------------------------
(* Step handlers of AutomationScript.  A handler maps the step, the        *)
(* outcome o of the external capability it calls and the interpreter state *)
(* to [success, current_step, loop_counters, variables].                   *)
HRes(s, cs, lc, vs) == [success |-> s, current_step |-> cs, loop_counters |-> lc, variables |-> vs]

Frame(ty, cur, tot, st) == [type |-> ty, current |-> cur, total |-> tot, start_step |-> st]
DelKey(f, k) == [x \in DOMAIN f \ {k} |-> f[x]]
PutKey(f, k, v) == [x \in DOMAIN f \cup {k} |-> IF x = k THEN v ELSE f[x]]

(* What the capability behind a step can do *)
Outcomes(step) ==
    CASE step.type = "click" -> {"ok", "fail", "raise"}
      [] step.type = "condition" -> {"true", "false", "error"}
      [] step.type = "loop" /\ step.loop_type = "while" -> {"true", "false", "error"}
      [] step.type = "play_recording" -> {"nofile", "play"}
      [] step.type = "find_image" -> {"found", "notfound", "raise"}
      [] OTHER -> {"ok"}

\* a click handler that leaves a value in the variable bag
_execute_click_Writes(step, o, cs, lc, vs) == HRes(o = "ok", cs, lc, PutKey(vs, "x", 1))

\* _execute_click and the other action handlers: an exception of the capability
\* is caught inside the handler and turned into False
_execute_click(step, o, cs, lc, vs) == HRes(o = "ok", cs, lc, vs)

\* _execute_find_image lines 524-543: a match is stored under save_to
_execute_find_image(step, o, cs, lc, vs) ==
    IF o = "found"
    THEN HRes(TRUE, cs, lc, IF Has(step.save_to) THEN PutKey(vs, Val(step.save_to), 1) ELSE vs)
    ELSE HRes(FALSE, cs, lc, vs)

_execute_set_variable(step, o, cs, lc, vs) ==
    IF step.name = "" THEN HRes(FALSE, cs, lc, vs)
    ELSE HRes(TRUE, cs, lc, PutKey(vs, step.name, step.value))

_execute_condition(step, o, cs, lc, vs) ==
    IF o = "error" THEN HRes(FALSE, cs, lc, vs)
    ELSE IF o = "true"
         THEN HRes(TRUE, IF Has(step.then_step) THEN Val(step.then_step) - 1 ELSE cs, lc, vs)
         ELSE HRes(TRUE, IF Has(step.else_step) THEN Val(step.else_step) - 1 ELSE cs, lc, vs)

\* self.variables as _resolve_value reads it: the bag of a run holds integers
AS_Bag(vs) == [k \in DOMAIN vs |-> PyInt(vs[k])]

\* counter["current"] against counter["total"], lines 813 and 876: an integer
\* and a string do not compare, Python raises TypeError
PyComparable(total) == total.kind = "int"

\* an exception of _resolve_value or of the comparison leaves through the
\* try of _execute_loop (lines 781, 792-794), which returns False
_execute_count_loop(step, o, cs, lc, vs) ==
    LET lid == step.loop_id
        count == _resolve_value(step.count, AS_Bag(vs))
        lc1 == IF lid \in DOMAIN lc THEN lc
               ELSE PutKey(lc, lid, Frame("count", 0, count.ret, cs))
        counter == lc1[lid]
    IN  IF count.raised /= "" THEN HRes(FALSE, cs, lc, vs)
        ELSE IF ~PyComparable(counter.total) THEN HRes(FALSE, cs, lc1, vs)
        ELSE IF counter.current >= counter.total.num
        THEN HRes(TRUE, IF Has(step.end_step) THEN Val(step.end_step) ELSE cs,
                  DelKey(lc1, lid), vs)
        ELSE HRes(TRUE, cs,
                  PutKey(lc1, lid, [counter EXCEPT !.current = counter.current + 1]), vs)

_execute_while_loop(step, o, cs, lc, vs) ==
    LET lid == step.loop_id
        lc1 == IF lid \in DOMAIN lc THEN lc
               ELSE PutKey(lc, lid, Frame("while", 0, PyInt(0), cs))
    IN  IF o = "error" THEN HRes(FALSE, cs, lc1, vs)
        ELSE IF o = "false"
             THEN HRes(TRUE, IF Has(step.end_step) THEN Val(step.end_step) ELSE cs,
                       DelKey(lc1, lid), vs)
             ELSE HRes(TRUE, cs, lc1, vs)

_execute_loop(step, o, cs, lc, vs) ==
    IF step.loop_type = "count" THEN _execute_count_loop(step, o, cs, lc, vs)
    ELSE IF step.loop_type = "while" THEN _execute_while_loop(step, o, cs, lc, vs)
    ELSE HRes(FALSE, cs, lc, vs)

\* an end_loop handler that treats a missing frame as an error
_execute_end_loop_Strict(step, o, cs, lc, vs) ==
    IF step.loop_id \in DOMAIN lc
    THEN HRes(TRUE, lc[step.loop_id].start_step, lc, vs)
    ELSE HRes(FALSE, cs, lc, vs)

_execute_end_loop(step, o, cs, lc, vs) ==
    LET lid == step.loop_id
    IN  IF lid = "" THEN HRes(FALSE, cs, lc, vs)
        ELSE IF lid \in DOMAIN lc
             THEN LET counter == lc[lid]
                  IN  IF counter.type = "count"
                      THEN IF ~PyComparable(counter.total)
                           THEN HRes(FALSE, cs, lc, vs)
                           ELSE IF counter.current < counter.total.num
                           THEN HRes(TRUE, counter.start_step, lc, vs)
                           ELSE HRes(TRUE, cs, lc, vs)
                      ELSE HRes(TRUE, counter.start_step, lc, vs)
             ELSE HRes(TRUE, cs, lc, vs)

\* _execute_play_recording: False without a loadable file; otherwise the
\* handler returns True once its wait loop is left (AS_ReplayPoll, AS_ReplayJoin)
_execute_play_recording(step, o, cs, lc, vs) == HRes(o /= "nofile", cs, lc, vs)

_execute_step(step, o, cs, lc, vs) ==
    CASE step.type = "click" -> _execute_click(step, o, cs, lc, vs)
      [] step.type = "play_recording" -> _execute_play_recording(step, o, cs, lc, vs)
      [] step.type = "find_image" -> _execute_find_image(step, o, cs, lc, vs)
      [] step.type = "condition" -> _execute_condition(step, o, cs, lc, vs)
      [] step.type = "loop" -> _execute_loop(step, o, cs, lc, vs)
      [] step.type = "end_loop" -> _execute_end_loop(step, o, cs, lc, vs)
      [] step.type = "set_variable" -> _execute_set_variable(step, o, cs, lc, vs)
      [] OTHER -> HRes(FALSE, cs, lc, vs)

\* mutant of NextIndex: a failed step without on_failure is retried
NextIndex_RetryFailed(step, success, cs) ==
    IF success
    THEN IF Has(step.next_step) THEN Val(step.next_step) ELSE cs + 1
    ELSE IF Has(step.on_failure) THEN Val(step.on_failure) ELSE cs

\* run_script lines 159-171: the next index after a handler returned
NextIndex(step, success, cs) ==
    IF success
    THEN IF Has(step.next_step) THEN Val(step.next_step) ELSE cs + 1
    ELSE IF Has(step.on_failure) THEN Val(step.on_failure) ELSE cs + 1

\* a skip that applies the jump fields of the disabled step
AS_Skip_Jumps(step, cs) == NextIndex(step, TRUE, cs)

\* run_script lines 143-145: a disabled step is passed over
AS_Skip(step, cs) == cs + 1


-----------------------------------------------------------------------------
(* AutomationScript.run_script, one action per stretch between two reads   *)
(* of the flags another thread may write.                                  *)

\* lines 118-128: entry of run_script
AS_RunScript(t) ==
    /\ engine = "AS"
    /\ UNCHANGED <<seVars, ipVars, epVars, fnVars>>
    /\ as_pc[t] = "idle"
    /\ \A u \in Threads : as_pc[u] = "idle" => t <= u    \* the callers are interchangeable
    /\ starts < maxStarts
    /\ starts' = starts + 1
    /\ IF as_steps = <<>>
       THEN /\ as_result' = [as_result EXCEPT ![t] = Append(@, FALSE)]
            /\ as_rejected' = TRUE
            /\ UNCHANGED <<as_running, as_paused, as_current_step, as_variables,
                           as_loop_counters, as_pc>>
       ELSE /\ as_running' = TRUE
            /\ as_paused' = FALSE
            /\ as_current_step' = 0
            /\ as_variables' = <<>>
            /\ as_loop_counters' = <<>>
            /\ as_pc' = [as_pc EXCEPT ![t] = "loop"]
            /\ UNCHANGED <<as_result, as_rejected>>
    /\ UNCHANGED <<engine, maxStarts, stopIssued, stopInPause, pauseIssued, as_steps, as_step,
                   as_trace, as_last, as_script_end>>

\* lines 173-179 and 188-189: the loop was left without an exception
AS_Finish(t) ==
    /\ as_script_end' = Append(as_script_end, TRUE)
    /\ as_result' = [as_result EXCEPT ![t] = Append(@, TRUE)]
    /\ as_running' = FALSE
    /\ as_pc' = [as_pc EXCEPT ![t] = "done"]

\* lines 180-189: an exception left the loop body
AS_Abort(t) ==
    /\ as_script_end' = Append(as_script_end, FALSE)
    /\ as_result' = [as_result EXCEPT ![t] = Append(@, FALSE)]
    /\ as_running' = FALSE
    /\ as_pc' = [as_pc EXCEPT ![t] = "done"]

\* line 131: the condition of the run loop
AS_LoopCheck(t) ==
    /\ engine = "AS"
    /\ UNCHANGED <<seVars, ipVars, epVars, fnVars>>
    /\ as_pc[t] = "loop"
    /\ IF as_running /\ as_current_step < Len(as_steps)
       THEN /\ as_pc' = [as_pc EXCEPT ![t] = "poll"]
            /\ UNCHANGED <<as_script_end, as_result, as_running>>
       ELSE AS_Finish(t)
    /\ UNCHANGED <<ctlVars, as_steps, as_paused, as_current_step, as_variables,
                   as_loop_counters, as_step, as_trace, as_last, as_rejected>>

\* a pause poll that waits on the pause flag alone
AS_PausePoll_IgnoreStop(t) ==
    /\ engine = "AS"
    /\ UNCHANGED <<seVars, ipVars, epVars, fnVars>>
    /\ as_pc[t] = "poll"
    /\ as_pc' = [as_pc EXCEPT ![t] = IF as_paused THEN "poll" ELSE "fetch"]
    /\ UNCHANGED <<ctlVars, as_steps, as_running, as_paused, as_current_step,
                   as_variables, as_loop_counters, as_step, as_result, as_trace,
                   as_last, as_script_end, as_rejected>>

\* lines 133-134: one round of the pause poll
AS_PausePoll(t) ==
    /\ engine = "AS"
    /\ UNCHANGED <<seVars, ipVars, epVars, fnVars>>
    /\ as_pc[t] = "poll"
    /\ as_pc' = [as_pc EXCEPT ![t] = IF as_paused /\ as_running THEN "poll" ELSE "fetch"]
    /\ UNCHANGED <<ctlVars, as_steps, as_running, as_paused, as_current_step,
                   as_variables, as_loop_counters, as_step, as_result, as_trace,
                   as_last, as_script_end, as_rejected>>

\* lines 136-149: stop check, fetch, skip of a disabled step, on_step_start
AS_Fetch(t) ==
    /\ engine = "AS"
    /\ UNCHANGED <<seVars, ipVars, epVars, fnVars>>
    /\ as_pc[t] = "fetch"
    /\ IF ~as_running
       THEN /\ AS_Finish(t)
            /\ UNCHANGED <<as_current_step, as_step, as_trace>>
       ELSE IF ~PyIndexable(as_steps, as_current_step)
       THEN /\ AS_Abort(t)
            /\ UNCHANGED <<as_current_step, as_step, as_trace>>
       ELSE IF ~PyIndex(as_steps, as_current_step).enabled
       THEN /\ as_current_step' = AS_Skip(PyIndex(as_steps, as_current_step), as_current_step)
            /\ as_pc' = [as_pc EXCEPT ![t] = "loop"]
            /\ UNCHANGED <<as_step, as_trace, as_script_end, as_result, as_running>>
       ELSE /\ Len(as_trace) < MaxTrace
            /\ as_step' = [as_step EXCEPT ![t] = PyPos(as_steps, as_current_step)]
            /\ as_trace' = Append(as_trace, PyPos(as_steps, as_current_step))
            /\ as_pc' = [as_pc EXCEPT ![t] = "exec"]
            /\ UNCHANGED <<as_current_step, as_script_end, as_result, as_running>>
    /\ UNCHANGED <<ctlVars, as_steps, as_paused, as_variables, as_loop_counters,
                   as_last, as_rejected>>

\* lines 153-171: the handler, on_step_end and the choice of the next index
\* EventPlayer.start_playback lines 103-125: the session state and its worker
EP_Start(events, speed) ==
    /\ ep_events' = events
    /\ ep_speed' = speed
    /\ ep_playing' = TRUE
    /\ ep_paused' = FALSE
    /\ ep_stop_event' = FALSE
    /\ ep_pc' = "top"
    /\ ep_i' = 0
    /\ ep_last_event_time' = 0

\* EventPlayer.stop_playback lines 133-140: the flags, then the join begins
EP_Stop ==
    /\ ep_stop_event' = TRUE
    /\ ep_playing' = FALSE

AS_Return(t, step, o, r) ==
    /\ as_current_step' = NextIndex(step, r.success, r.current_step)
    /\ as_loop_counters' = r.loop_counters
    /\ as_variables' = r.variables
    /\ as_last' = [index |-> as_step[t], outcome |-> o, success |-> r.success,
                   end_index |-> r.current_step,
                   next |-> NextIndex(step, r.success, r.current_step)]
    /\ as_pc' = [as_pc EXCEPT ![t] = "loop"]

\* a replay step with a loadable file (_execute_play_recording lines 439-442)
\* starts the sub-session of self.player and enters its wait loop
AS_Execute(t) ==
    /\ engine = "AS"
    /\ UNCHANGED <<seVars, ipVars, fnVars>>
    /\ as_pc[t] = "exec"
    /\ LET step == as_steps[as_step[t] + 1]
       IN \E o \in Outcomes(step) :
            IF step.type = "play_recording" /\ o = "play"
            THEN /\ IF ep_playing      \* start_playback line 92: already playing
                    THEN UNCHANGED <<ep_events, ep_speed, ep_playing, ep_paused,
                                     ep_stop_event, ep_pc, ep_i, ep_last_event_time>>
                    ELSE /\ ep_pc \in {"none", "dead"}
                         /\ EP_Start(RecordingEvents, 10)
                 /\ as_pc' = [as_pc EXCEPT ![t] = "replay"]
                 /\ UNCHANGED <<as_current_step, as_loop_counters, as_variables, as_last>>
            ELSE /\ AS_Return(t, step, o, _execute_step(step, o, as_current_step,
                                                       as_loop_counters, as_variables))
                 /\ UNCHANGED <<ep_events, ep_speed, ep_playing, ep_paused,
                                ep_stop_event, ep_pc, ep_i, ep_last_event_time>>
    /\ UNCHANGED <<ep_cpc, ep_wait, ep_dispatched, ep_on_stop, ep_on_error>>
    /\ UNCHANGED <<ctlVars, as_steps, as_running, as_paused, as_step, as_result,
                   as_trace, as_script_end, as_rejected>>

\* _execute_play_recording lines 445-455: one round of the wait loop.  The
\* loop is left when the sub-session is over, or through stop_playback and
\* break when the run was stopped; the handler then returns True.
AS_ReplayPoll(t) ==
    /\ engine = "AS"
    /\ UNCHANGED <<seVars, ipVars, fnVars>>
    /\ as_pc[t] = "replay"
    /\ LET step == as_steps[as_step[t] + 1]
       IN IF ~ep_playing
          THEN /\ AS_Return(t, step, "play",
                            HRes(TRUE, as_current_step, as_loop_counters, as_variables))
               /\ UNCHANGED <<ep_playing, ep_stop_event>>
          ELSE /\ ~as_running
               /\ EP_Stop
               /\ as_pc' = [as_pc EXCEPT ![t] = "replay_join"]
               /\ UNCHANGED <<as_current_step, as_loop_counters, as_variables, as_last>>
    /\ UNCHANGED <<ep_events, ep_paused, ep_speed, ep_pc, ep_cpc, ep_i,
                   ep_last_event_time, ep_wait, ep_dispatched, ep_on_stop, ep_on_error>>
    /\ UNCHANGED <<ctlVars, as_steps, as_running, as_paused, as_step, as_result,
                   as_trace, as_script_end, as_rejected>>

\* stop_playback lines 142-151 inside the replay step: the worker of the
\* sub-session has ended; break, and the handler returns True (line 455)
AS_ReplayJoin(t) ==
    /\ engine = "AS"
    /\ UNCHANGED <<seVars, ipVars, fnVars>>
    /\ as_pc[t] = "replay_join"
    /\ ep_pc \in {"none", "dead"}
    /\ ep_on_stop' = ep_on_stop + 1
    /\ AS_Return(t, as_steps[as_step[t] + 1], "stopped",
                 HRes(TRUE, as_current_step, as_loop_counters, as_variables))
    /\ UNCHANGED <<ep_events, ep_playing, ep_paused, ep_stop_event, ep_speed, ep_pc,
                   ep_cpc, ep_i, ep_last_event_time, ep_wait, ep_dispatched, ep_on_error>>
    /\ UNCHANGED <<ctlVars, as_steps, as_running, as_paused, as_step, as_result,
                   as_trace, as_script_end, as_rejected>>

\* lines 191-204: the calls of the controlling thread; stop_script is followed
\* while the run is in progress
AS_StopScript ==
    /\ engine = "AS"
    /\ UNCHANGED <<seVars, ipVars, epVars, fnVars>>
    /\ as_running
    /\ ~stopIssued
    /\ as_running' = FALSE
    /\ stopIssued' = TRUE
    /\ stopInPause' = as_paused
    /\ UNCHANGED <<engine, maxStarts, starts, pauseIssued, as_steps, as_paused,
                   as_current_step, as_variables, as_loop_counters, as_pc, as_step,
                   as_result, as_trace, as_last, as_script_end, as_rejected>>

AS_PauseScript ==
    /\ engine = "AS"
    /\ UNCHANGED <<seVars, ipVars, epVars, fnVars>>
    /\ starts > 0
    /\ ~as_paused
    /\ as_paused' = TRUE
    /\ pauseIssued' = TRUE
    /\ UNCHANGED <<engine, maxStarts, starts, stopIssued, stopInPause, as_steps, as_running,
                   as_current_step, as_variables, as_loop_counters, as_pc, as_step,
                   as_result, as_trace, as_last, as_script_end, as_rejected>>

AS_ResumeScript ==
    /\ engine = "AS"
    /\ UNCHANGED <<seVars, ipVars, epVars, fnVars>>
    /\ as_paused
    /\ as_paused' = FALSE
    /\ UNCHANGED <<ctlVars, as_steps, as_running, as_current_step, as_variables,
                   as_loop_counters, as_pc, as_step, as_result, as_trace, as_last,
                   as_script_end, as_rejected>>

\* no step has been executed yet
NoLast == [index |-> -1, outcome |-> "", success |-> TRUE, end_index |-> -1, next |-> -1]

AS_Init ==
    /\ as_running = FALSE
    /\ as_paused = FALSE
    /\ as_current_step = 0
    /\ as_variables = <<>>
    /\ as_loop_counters = <<>>
    /\ as_pc = [t \in Threads |-> "idle"]
    /\ as_step = [t \in Threads |-> 0]
    /\ as_result = [t \in Threads |-> <<>>]
    /\ as_trace = <<>>
    /\ as_last = NoLast
    /\ as_script_end = <<>>
    /\ as_rejected = FALSE

AS_Next ==
    \/ \E t \in Threads : AS_RunScript(t)
    \/ \E t \in Threads : AS_LoopCheck(t)
    \/ \E t \in Threads : AS_PausePoll(t)
    \/ \E t \in Threads : AS_Fetch(t)
    \/ \E t \in Threads : AS_Execute(t)
    \/ \E t \in Threads : AS_ReplayPoll(t)
    \/ \E t \in Threads : AS_ReplayJoin(t)
    \/ AS_StopScript
    \/ AS_PauseScript
    \/ AS_ResumeScript

-----------------------------------------------------------------------------
(* Steps of a ScriptExecutor program (ScriptStep).  true_step, false_step  *)
(* and loop_step are the nested step of params, <<>> when absent and       *)
(* <<"click">> when it is an action step.  max_iterations of an            *)
(* until_image loop is carried in count.                                   *)
SEStep(ty, ts, fs, lt, cnt, ls) ==
    [type |-> ty, true_step |-> ts, false_step |-> fs, loop_type |-> lt,
     count |-> cnt, loop_step |-> ls]

SEClick == SEStep("click", <<>>, <<>>, "", 0, <<>>)
SEComment == SEStep("comment", <<>>, <<>>, "", 0, <<>>)
SECondition(ts, fs) == SEStep("condition", ts, fs, "", 0, <<>>)
SELoop(lt, n, ls) == SEStep("loop", <<>>, <<>>, lt, n, ls)
SEExecute == SEStep("execute", <<>>, <<>>, "", 0, <<>>)

SE_SeqPrograms == UNION {[1..n -> {SEClick, SEComment}] : n \in 1..MaxSteps}
SE_CondPrograms ==
    {<<SECondition(ts, fs), SEClick>> : ts \in Opt({"click"}), fs \in Opt({"click"})}
SE_LoopPrograms ==
    {<<SELoop(lt, n, ls), SEClick>> :
        lt \in {"count", "until_image"}, n \in 0..MaxCount, ls \in Opt({"click"})}
SE_ReplayPrograms == {<<SEExecute, SEClick>>}
SE_Programs == SE_SeqPrograms \cup SE_CondPrograms \cup SE_LoopPrograms \cup SE_ReplayPrograms
SE_MultiPrograms == {<<SEClick, SEComment>>, <<SELoop("count", 1, <<"click">>), SEClick>>,
                     <<SEExecute>>}

Callers == 1..MaxCalls

\* self.lock = threading.Lock(): `with self.lock` enters only when no thread
\* holds it, the thread that holds it included
Acquirable(lock) == lock = 0

\* a worker whose fetch block is still open when the callbacks run
SE_FetchExit_Held(w) == w

\* _execute_thread lines 479-486: the with block of the fetch is left before
\* on_step_start, the handler and on_step_complete are called
SE_FetchExit(w) == 0

\* _playback_thread lines 197-205: the with block of the fetch is left before
\* on_event and _play_event are called
IP_FetchExit(w) == 0
Workers == 1..MaxCalls

\* the worker thread the next accepted start call creates
NewWorker(wpc) == CHOOSE w \in Workers : wpc[w] = "none" /\ \A v \in Workers : wpc[v] = "none" => w <= v

-----------------------------------------------------------------------------
(* ScriptExecutor: the handlers of _execute_step that return at once.  The *)
(* result is ScriptExecutionResult.success; an exception of the capability *)
(* is caught by the handler and gives False.                               *)
SE_ActOutcomes == {"ok", "fail", "raise"}

SE_execute_click(a) == a = "ok"

\* _execute_condition: c is the outcome of the check, a of the nested step
SE_execute_condition(step, c, a) ==
    IF c = "error" THEN FALSE
    ELSE IF c = "true"
         THEN IF Has(step.true_step) THEN SE_execute_click(a) ELSE TRUE
         ELSE IF Has(step.false_step) THEN SE_execute_click(a) ELSE TRUE

SE_execute_step(step, c, a) ==
    CASE step.type = "click" -> SE_execute_click(a)
      [] step.type = "condition" -> SE_execute_condition(step, c, a)
      [] step.type = "comment" -> TRUE
      [] OTHER -> FALSE

\* whether an exception was raised inside the handler (history only)
SE_raised(step, c, a) ==
    CASE step.type = "click" -> a = "raise"
      [] step.type = "condition" ->
            \/ c = "error"
            \/ c = "true" /\ Has(step.true_step) /\ a = "raise"
            \/ c = "false" /\ Has(step.false_step) /\ a = "raise"
      [] OTHER -> FALSE

\* ScriptExecutor.execute lines 400-410: the checks made before the lock
SE_ExecuteCheck(c) ==
    /\ engine = "SE"
    /\ UNCHANGED <<asVars, ipVars, epVars, fnVars, se_rec, se_lock, reentered, loaded>>
    /\ se_cpc[c] = "idle"
    /\ \A d \in Callers : se_cpc[d] = "idle" => c <= d   \* the callers are interchangeable
    /\ starts < maxStarts
    /\ starts' = starts + 1
    /\ IF se_executing \/ se_script = <<>>
       THEN /\ se_rejected' = se_rejected + 1
            /\ UNCHANGED se_cpc
       ELSE /\ se_cpc' = [se_cpc EXCEPT ![c] = "checked"]
            /\ UNCHANGED se_rejected
    /\ UNCHANGED <<engine, maxStarts, stopIssued, stopInPause, pauseIssued, se_script, se_executing,
                   se_paused, se_current_step_index, se_variables, se_callbacks, se_wpc,
                   se_step_index, se_i, se_trace, se_iters, se_last, se_complete>>

\* ScriptExecutor.execute lines 412-428: the session is set up and the worker started
SE_ExecuteStart(c) ==
    /\ engine = "SE"
    /\ Acquirable(se_lock)
    /\ UNCHANGED <<asVars, ipVars, epVars, fnVars, se_rec, se_lock, reentered, loaded>>
    /\ se_cpc[c] = "checked"
    /\ se_executing' = TRUE
    /\ se_paused' = FALSE
    /\ se_current_step_index' = 0
    /\ se_callbacks' = NewWorker(se_wpc)
    /\ se_variables' = <<>>
    /\ se_wpc' = [se_wpc EXCEPT ![NewWorker(se_wpc)] = "loop"]
    /\ se_cpc' = [se_cpc EXCEPT ![c] = "idle"]
    /\ UNCHANGED <<ctlVars, se_script, se_step_index, se_i, se_trace, se_iters,
                   se_last, se_complete, se_rejected>>

\* ScriptExecutor.stop, when it finds the run executing (otherwise it returns at once)
SE_Stop ==
    /\ engine = "SE"
    /\ Acquirable(se_lock)
    /\ UNCHANGED <<asVars, ipVars, epVars, fnVars, se_rec, se_lock, reentered, loaded>>
    /\ se_executing
    /\ ~stopIssued
    /\ stopIssued' = TRUE
    /\ stopInPause' = se_paused
    /\ se_executing' = FALSE
    /\ se_paused' = FALSE
    /\ UNCHANGED <<engine, maxStarts, starts, pauseIssued, se_script,
                   se_current_step_index, se_variables, se_callbacks, se_cpc, se_wpc,
                   se_step_index, se_i, se_trace, se_iters, se_last, se_complete,
                   se_rejected>>

\* ScriptExecutor.pause
SE_Pause ==
    /\ engine = "SE"
    /\ Acquirable(se_lock)
    /\ UNCHANGED <<asVars, ipVars, epVars, fnVars, se_rec, se_lock, reentered, loaded>>
    /\ se_executing /\ ~se_paused
    /\ se_paused' = TRUE
    /\ pauseIssued' = TRUE
    /\ UNCHANGED <<engine, maxStarts, starts, stopIssued, stopInPause, se_script, se_executing,
                   se_current_step_index, se_variables, se_callbacks, se_cpc, se_wpc,
                   se_step_index, se_i, se_trace, se_iters, se_last, se_complete,
                   se_rejected>>

\* ScriptExecutor.resume
SE_Resume ==
    /\ engine = "SE"
    /\ Acquirable(se_lock)
    /\ UNCHANGED <<asVars, ipVars, epVars, fnVars, se_rec, se_lock, reentered, loaded>>
    /\ se_executing /\ se_paused
    /\ se_paused' = FALSE
    /\ UNCHANGED <<ctlVars, se_script, se_executing, se_current_step_index,
                   se_variables, se_callbacks, se_cpc, se_wpc, se_step_index, se_i,
                   se_trace, se_iters, se_last, se_complete, se_rejected>>

\* _execute_thread lines 507-516 (and the break of line 501): the worker leaves
\* the loop, clears the flags and reports success
SE_Finish(w, success) ==
    /\ Acquirable(se_lock)
    /\ se_executing' = FALSE
    /\ se_paused' = FALSE
    /\ se_complete' = Append(se_complete,
           [worker |-> w, success |-> success, callbacks |-> se_callbacks])
    /\ se_wpc' = [se_wpc EXCEPT ![w] = "dead"]

\* _execute_thread lines 493-505: on_step_complete, then break or advance
SE_StepDone(w, success, raised) ==
    /\ se_last' = [index |-> se_step_index[w], success |-> success, raised |-> raised]
    /\ IF success
       THEN /\ Acquirable(se_lock)
            /\ se_current_step_index' = se_current_step_index + 1
            /\ se_wpc' = [se_wpc EXCEPT ![w] = "loop"]
            /\ UNCHANGED <<se_executing, se_paused, se_complete>>
       ELSE /\ SE_Finish(w, FALSE)
            /\ UNCHANGED se_current_step_index

\* _execute_thread lines 472-476: loop condition and pause poll
SE_LoopCheck(w) ==
    /\ engine = "SE"
    /\ UNCHANGED <<asVars, ipVars, epVars, fnVars, se_rec, se_lock, reentered, loaded>>
    /\ se_wpc[w] = "loop"
    /\ IF se_executing /\ se_current_step_index < Len(se_script)
       THEN /\ se_wpc' = [se_wpc EXCEPT ![w] = IF se_paused THEN "loop" ELSE "fetch"]
            /\ UNCHANGED <<se_executing, se_paused, se_complete>>
       ELSE SE_Finish(w, TRUE)
    /\ UNCHANGED <<ctlVars, se_script, se_current_step_index, se_variables,
                   se_callbacks, se_cpc, se_step_index, se_i, se_trace, se_iters,
                   se_last, se_rejected>>

\* _execute_thread lines 478-488: fetch under the lock, on_step_start
SE_Fetch(w) ==
    /\ engine = "SE"
    /\ UNCHANGED <<asVars, ipVars, epVars, fnVars, se_rec, reentered, loaded>>
    /\ se_wpc[w] = "fetch"
    /\ Acquirable(se_lock)
    /\ se_lock' = SE_FetchExit(w)
    /\ IF se_current_step_index >= Len(se_script)
       THEN /\ SE_Finish(w, TRUE)
            /\ UNCHANGED <<se_step_index, se_trace>>
       ELSE /\ Len(se_trace) < MaxTrace
            /\ se_step_index' = [se_step_index EXCEPT ![w] = se_current_step_index]
            /\ se_trace' = Append(se_trace, se_current_step_index)
            /\ se_wpc' = [se_wpc EXCEPT ![w] = "exec"]
            /\ UNCHANGED <<se_executing, se_paused, se_complete>>
    /\ UNCHANGED <<ctlVars, se_script, se_current_step_index, se_variables,
                   se_callbacks, se_cpc, se_i, se_iters, se_last, se_rejected>>

\* _execute_thread line 491: the handler of the fetched step; a loop step enters
\* the for loop of _execute_loop (lines 966-983)
\* max(0.1, min(10.0, speed)), in tenths
ClampSpeed(s) == IF s < 1 THEN 1 ELSE IF s > 100 THEN 100 ELSE s

\* a step of type execute with a loadable file (_execute_recording lines
\* 864-875): load_recording, then start_playback on self.input_player with
\* the on_complete of this call, then completed.wait()
SE_Execute(w) ==
    /\ engine = "SE"
    /\ UNCHANGED <<asVars, epVars, fnVars, se_lock, reentered, loaded>>
    /\ se_wpc[w] = "exec"
    /\ LET step == se_script[se_step_index[w] + 1]
       IN IF step.type = "loop"
          THEN /\ IF ~Has(step.loop_step) \/ step.loop_type \notin {"count", "until_image"}
                  THEN /\ SE_StepDone(w, FALSE, FALSE)
                       /\ UNCHANGED <<se_i, se_iters>>
                  ELSE /\ se_i' = [se_i EXCEPT ![w] = 0]
                       /\ se_iters' = 0
                       /\ se_wpc' = [se_wpc EXCEPT ![w] = "iter"]
                       /\ UNCHANGED <<se_executing, se_paused, se_complete,
                                      se_current_step_index, se_last>>
               /\ UNCHANGED <<ipVars, se_rec>>
          ELSE IF step.type = "execute"
          THEN \E o \in {"nofile", "play"} :
                 /\ UNCHANGED <<se_i, se_iters>>
                 /\ IF o = "nofile"
                    THEN /\ SE_StepDone(w, FALSE, FALSE)
                         /\ UNCHANGED <<ipVars, se_rec>>
                    ELSE /\ se_wpc' = [se_wpc EXCEPT ![w] = "recwait"]
                         /\ UNCHANGED <<se_executing, se_paused, se_complete,
                                        se_current_step_index, se_last>>
                         /\ ip_events' = RecordingEvents       \* load_events
                         /\ ip_current_index' = 0
                         /\ IF ip_playing    \* start_playback returns False
                            THEN /\ se_rec' = [se_rec EXCEPT ![w] = 0]
                                 /\ UNCHANGED <<ip_playing, ip_paused, ip_speed,
                                                ip_callbacks, ip_wpc>>
                            ELSE /\ \E v \in Workers : ip_wpc[v] = "none"
                                 /\ ip_playing' = TRUE
                                 /\ ip_paused' = FALSE
                                 /\ ip_speed' = ClampSpeed(10)
                                 /\ ip_callbacks' = NewWorker(ip_wpc)
                                 /\ se_rec' = [se_rec EXCEPT ![w] = NewWorker(ip_wpc)]
                                 /\ ip_wpc' = [ip_wpc EXCEPT ![NewWorker(ip_wpc)] = "loop"]
                         /\ Acquirable(ip_lock)
                         /\ UNCHANGED <<ip_cpc, ip_event, ip_wait, ip_dispatched,
                                        ip_complete, ip_rejected, ip_lock>>
          ELSE /\ \E c \in {"true", "false", "error"}, a \in SE_ActOutcomes :
                    SE_StepDone(w, SE_execute_step(step, c, a), SE_raised(step, c, a))
               /\ UNCHANGED <<se_i, se_iters>>
               /\ UNCHANGED <<ipVars, se_rec>>
    /\ UNCHANGED <<ctlVars, se_script, se_variables, se_callbacks, se_cpc,
                   se_step_index, se_trace, se_rejected>>

\* _execute_recording lines 878-880: completed.wait() returns once the
\* on_complete of this call has run; the result is success
SE_RecordingWait(w) ==
    /\ engine = "SE"
    /\ UNCHANGED <<asVars, ipVars, epVars, fnVars, se_rec, se_lock, reentered, loaded>>
    /\ se_wpc[w] = "recwait"
    /\ \E k \in 1..Len(ip_complete) : ip_complete[k].callbacks = se_rec[w]
    /\ SE_StepDone(w, TRUE, FALSE)
    /\ UNCHANGED <<ctlVars, se_script, se_variables, se_callbacks, se_cpc,
                   se_step_index, se_i, se_trace, se_iters, se_rejected>>

\* _execute_loop lines 983-999 and 1013-1048: one round of the for loop
SE_LoopIter(w) ==
    /\ engine = "SE"
    /\ UNCHANGED <<asVars, ipVars, epVars, fnVars, se_rec, se_lock, reentered, loaded>>
    /\ se_wpc[w] = "iter"
    /\ LET step == se_script[se_step_index[w] + 1]
           afterLoop == step.loop_type = "count"   \* the return after the for loop
       IN IF se_i[w] >= step.count \/ ~se_executing \/ se_paused
          THEN /\ SE_StepDone(w, afterLoop, FALSE)
               /\ UNCHANGED <<se_i, se_iters>>
          ELSE \E a \in SE_ActOutcomes, found \in BOOLEAN :
                 /\ se_iters' = se_iters + 1
                 /\ IF ~SE_execute_click(a)
                    THEN SE_StepDone(w, FALSE, a = "raise") /\ UNCHANGED se_i
                    ELSE IF step.loop_type = "until_image" /\ found
                    THEN SE_StepDone(w, TRUE, FALSE) /\ UNCHANGED se_i
                    ELSE /\ se_i' = [se_i EXCEPT ![w] = se_i[w] + 1]
                         /\ UNCHANGED <<se_executing, se_paused, se_complete,
                                        se_current_step_index, se_last, se_wpc>>
    /\ UNCHANGED <<ctlVars, se_script, se_variables, se_callbacks, se_cpc,
                   se_step_index, se_trace, se_rejected>>

\* a callback or handler of the worker (lines 486-497) calls stop, pause or
\* resume of its own executor (lines 434-464).  A call that passes its first
\* test takes self.lock on the worker thread: it never returns if that thread
\* holds the lock already
SE_Reenter(w) ==
    /\ engine = "SE"
    /\ UNCHANGED <<asVars, ipVars, epVars, fnVars, se_rec, se_lock, loaded>>
    /\ se_wpc[w] = "exec"
    /\ ~reentered
    /\ \E call \in {"stop", "pause", "resume"} :
         /\ CASE call = "stop" -> se_executing /\ ~stopIssued
              [] call = "pause" -> se_executing /\ ~se_paused
              [] OTHER -> se_executing /\ se_paused
         /\ IF se_lock = w
            THEN /\ se_wpc' = [se_wpc EXCEPT ![w] = "stuck"]
                 /\ UNCHANGED <<ctlVars, se_executing, se_paused, reentered>>
            ELSE /\ Acquirable(se_lock)
                 /\ reentered' = TRUE
                 /\ se_executing' = (call /= "stop")
                 /\ se_paused' = (call = "pause")
                 /\ stopIssued' = (stopIssued \/ call = "stop")
                 /\ stopInPause' = IF call = "stop" THEN se_paused ELSE stopInPause
                 /\ pauseIssued' = (pauseIssued \/ call = "pause")
                 /\ UNCHANGED <<engine, maxStarts, starts, se_wpc>>
    /\ UNCHANGED <<se_script, se_current_step_index, se_variables, se_callbacks,
                   se_cpc, se_step_index, se_i, se_trace, se_iters, se_last,
                   se_complete, se_rejected>>

\* the program of a load_script call made during a run
LoadedScript == [i \in 1..MaxSteps |-> SEClick]

\* ScriptExecutor.load_script lines 377-379, called while the first run of a
\* behaviour is active and its worker is between two rounds of its loop
SE_LoadScript ==
    /\ engine = "SE"
    /\ UNCHANGED <<asVars, ipVars, epVars, fnVars, se_rec, se_lock, reentered>>
    /\ Acquirable(se_lock)
    /\ se_executing /\ ~loaded /\ starts <= 1
    /\ \A w \in Workers : se_wpc[w] \in {"none", "dead", "loop"}
    /\ loaded' = TRUE
    /\ se_script' = LoadedScript
    /\ se_current_step_index' = 0
    /\ UNCHANGED <<ctlVars, se_executing, se_paused, se_variables, se_callbacks, se_cpc,
                   se_wpc, se_step_index, se_i, se_trace, se_iters, se_last,
                   se_complete, se_rejected>>

SE_NoLast == [index |-> -1, success |-> TRUE, raised |-> FALSE]

SE_Init ==
    /\ se_executing = FALSE
    /\ se_paused = FALSE
    /\ se_current_step_index = 0
    /\ se_variables = <<>>
    /\ se_callbacks = 0
    /\ se_cpc = [c \in Callers |-> "idle"]
    /\ se_wpc = [w \in Workers |-> "none"]
    /\ se_step_index = [w \in Workers |-> 0]
    /\ se_i = [w \in Workers |-> 0]
    /\ se_trace = <<>>
    /\ se_iters = 0
    /\ se_last = SE_NoLast
    /\ se_complete = <<>>
    /\ se_rejected = 0
    /\ se_rec = [w \in Workers |-> 0]
    /\ se_lock = 0
    /\ reentered = FALSE
    /\ loaded = FALSE

SE_Next ==
    \/ \E c \in Callers : SE_ExecuteCheck(c)
    \/ \E c \in Callers : SE_ExecuteStart(c)
    \/ \E w \in Workers : SE_LoopCheck(w)
    \/ \E w \in Workers : SE_Fetch(w)
    \/ \E w \in Workers : SE_Execute(w)
    \/ \E w \in Workers : SE_LoopIter(w)
    \/ \E w \in Workers : SE_RecordingWait(w)
    \/ \E w \in Workers : SE_Reenter(w)
    \/ SE_LoadScript
    \/ SE_Stop
    \/ SE_Pause
    \/ SE_Resume

-----------------------------------------------------------------------------
(* InputPlayer.  An event is its timestamp; speed is kept in tenths.       *)
EventLists == UNION {[1..n -> {0, MaxTime}] : n \in 1..MaxEvents}
StartSpeeds == {0, 10, 200}
MultiEventLists == {<<0, 1>>, <<1, 1>>}


NoWait == [dt |-> 0, speed |-> 10]

\* InputPlayer.start_playback lines 111-117: the checks made before the lock
IP_StartCheck(c) ==
    /\ engine = "IP"
    /\ UNCHANGED <<asVars, seVars, epVars, fnVars, ip_lock>>
    /\ ip_cpc[c] = "idle"
    /\ \A d \in Callers : ip_cpc[d] = "idle" => c <= d   \* the callers are interchangeable
    /\ starts < maxStarts
    /\ starts' = starts + 1
    /\ IF ip_playing \/ ip_events = <<>>
       THEN /\ ip_rejected' = ip_rejected + 1
            /\ UNCHANGED ip_cpc
       ELSE /\ ip_cpc' = [ip_cpc EXCEPT ![c] = "checked"]
            /\ UNCHANGED ip_rejected
    /\ UNCHANGED <<engine, maxStarts, stopIssued, stopInPause, pauseIssued, ip_events, ip_playing,
                   ip_paused, ip_speed, ip_current_index, ip_callbacks, ip_wpc,
                   ip_event, ip_wait, ip_dispatched, ip_complete>>

\* InputPlayer.start_playback lines 119-134
IP_StartPlayback(c) ==
    /\ engine = "IP"
    /\ Acquirable(ip_lock)
    /\ UNCHANGED <<asVars, seVars, epVars, fnVars, ip_lock>>
    /\ ip_cpc[c] = "checked"
    /\ \E speed \in StartSpeeds : ip_speed' = ClampSpeed(speed)
    /\ ip_playing' = TRUE
    /\ ip_paused' = FALSE
    /\ ip_current_index' = 0
    /\ ip_callbacks' = NewWorker(ip_wpc)
    /\ ip_wpc' = [ip_wpc EXCEPT ![NewWorker(ip_wpc)] = "loop"]
    /\ ip_cpc' = [ip_cpc EXCEPT ![c] = "idle"]
    /\ UNCHANGED <<ctlVars, ip_events, ip_event, ip_wait, ip_dispatched, ip_complete,
                   ip_rejected>>

\* InputPlayer.stop_playback, when it finds the session playing (otherwise it returns at once)
IP_StopPlayback ==
    /\ engine = "IP"
    /\ Acquirable(ip_lock)
    /\ UNCHANGED <<asVars, seVars, epVars, fnVars, ip_lock>>
    /\ ip_playing
    /\ ~stopIssued
    /\ stopIssued' = TRUE
    /\ stopInPause' = ip_paused
    /\ ip_playing' = FALSE
    /\ ip_paused' = FALSE
    /\ UNCHANGED <<engine, maxStarts, starts, pauseIssued, ip_events, ip_speed,
                   ip_current_index, ip_callbacks, ip_cpc, ip_wpc, ip_event, ip_wait,
                   ip_dispatched, ip_complete, ip_rejected>>

\* InputPlayer.pause_playback
IP_PausePlayback ==
    /\ engine = "IP"
    /\ Acquirable(ip_lock)
    /\ UNCHANGED <<asVars, seVars, epVars, fnVars, ip_lock>>
    /\ ip_playing /\ ~ip_paused
    /\ ip_paused' = TRUE
    /\ pauseIssued' = TRUE
    /\ UNCHANGED <<engine, maxStarts, starts, stopIssued, stopInPause, ip_events, ip_playing,
                   ip_speed, ip_current_index, ip_callbacks, ip_cpc, ip_wpc, ip_event,
                   ip_wait, ip_dispatched, ip_complete, ip_rejected>>

\* InputPlayer.resume_playback
IP_ResumePlayback ==
    /\ engine = "IP"
    /\ Acquirable(ip_lock)
    /\ UNCHANGED <<asVars, seVars, epVars, fnVars, ip_lock>>
    /\ ip_playing /\ ip_paused
    /\ ip_paused' = FALSE
    /\ UNCHANGED <<ctlVars, ip_events, ip_playing, ip_speed, ip_current_index,
                   ip_callbacks, ip_cpc, ip_wpc, ip_event, ip_wait, ip_dispatched,
                   ip_complete, ip_rejected>>

\* InputPlayer.set_speed
IP_SetSpeed ==
    /\ engine = "IP"
    /\ Acquirable(ip_lock)
    /\ UNCHANGED <<asVars, seVars, epVars, fnVars, ip_lock>>
    /\ \E speed \in StartSpeeds : ip_speed' = ClampSpeed(speed)
    /\ UNCHANGED <<ctlVars, ip_events, ip_playing, ip_paused, ip_current_index,
                   ip_callbacks, ip_cpc, ip_wpc, ip_event, ip_wait, ip_dispatched,
                   ip_complete, ip_rejected>>

\* a completion that clears the flags without the callback
IP_Finish_Silent(w) ==
    /\ ip_playing' = FALSE
    /\ ip_paused' = FALSE
    /\ UNCHANGED ip_complete
    /\ ip_wpc' = [ip_wpc EXCEPT ![w] = "dead"]

\* _playback_thread lines 231-240: flags cleared, on_complete invoked
IP_Finish(w) ==
    /\ Acquirable(ip_lock)
    /\ ip_playing' = FALSE
    /\ ip_paused' = FALSE
    /\ ip_complete' = Append(ip_complete, [worker |-> w, callbacks |-> ip_callbacks])
    /\ ip_wpc' = [ip_wpc EXCEPT ![w] = "dead"]

\* _playback_thread lines 190-194: loop condition and pause poll
IP_LoopCheck(w) ==
    /\ engine \in {"IP", "SE"}
    /\ UNCHANGED <<asVars, seVars, epVars, fnVars, ip_lock>>
    /\ ip_wpc[w] = "loop"
    /\ IF ip_playing /\ ip_current_index < Len(ip_events)
       THEN /\ ip_wpc' = [ip_wpc EXCEPT ![w] = IF ip_paused THEN "loop" ELSE "fetch"]
            /\ UNCHANGED <<ip_playing, ip_paused, ip_complete>>
       ELSE IP_Finish(w)
    /\ UNCHANGED <<ctlVars, ip_events, ip_speed, ip_current_index, ip_callbacks,
                   ip_cpc, ip_event, ip_wait, ip_dispatched, ip_rejected>>

\* _playback_thread lines 196-206: fetch under the lock, on_event
IP_Fetch(w) ==
    /\ engine \in {"IP", "SE"}
    /\ UNCHANGED <<asVars, seVars, epVars, fnVars>>
    /\ ip_wpc[w] = "fetch"
    /\ Acquirable(ip_lock)
    /\ ip_lock' = IP_FetchExit(w)
    /\ IF ip_current_index >= Len(ip_events)
       THEN /\ IP_Finish(w)
            /\ UNCHANGED ip_event
       ELSE /\ ip_event' = [ip_event EXCEPT ![w] = ip_current_index]
            /\ ip_wpc' = [ip_wpc EXCEPT ![w] = "play"]
            /\ UNCHANGED <<ip_playing, ip_paused, ip_complete>>
    /\ UNCHANGED <<ctlVars, ip_events, ip_speed, ip_current_index, ip_callbacks,
                   ip_cpc, ip_wait, ip_dispatched, ip_rejected>>

\* _playback_thread lines 208-229: dispatch, advance, compute the next wait
IP_PlayEvent(w) ==
    /\ engine \in {"IP", "SE"}
    /\ UNCHANGED <<asVars, seVars, epVars, fnVars, ip_lock>>
    /\ ip_wpc[w] = "play"
    /\ Len(ip_dispatched) < MaxTrace
    /\ \E raised \in BOOLEAN :     \* _play_event catches what the sink raises
         ip_dispatched' = Append(ip_dispatched, <<w, ip_event[w], raised>>)
    /\ Acquirable(ip_lock)
    /\ ip_current_index' = ip_current_index + 1
    /\ IF ip_current_index + 1 >= Len(ip_events)
       THEN /\ ip_wpc' = [ip_wpc EXCEPT ![w] = "finish"]
            /\ UNCHANGED ip_wait
       ELSE LET event == ip_events[ip_event[w] + 1]
                next_event == ip_events[ip_current_index + 2]
            IN  /\ ip_wait' = [ip_wait EXCEPT ![w] =
                       IF next_event > event
                       THEN [dt |-> next_event - event, speed |-> ip_speed]
                       ELSE NoWait]
                /\ ip_wpc' = [ip_wpc EXCEPT ![w] = "wait"]
    /\ UNCHANGED <<ctlVars, ip_events, ip_playing, ip_paused, ip_speed, ip_callbacks,
                   ip_cpc, ip_event, ip_complete, ip_rejected>>

\* _playback_thread line 229: time.sleep returns
IP_Wait(w) ==
    /\ engine \in {"IP", "SE"}
    /\ UNCHANGED <<asVars, seVars, epVars, fnVars, ip_lock>>
    /\ ip_wpc[w] = "wait"
    /\ ip_wpc' = [ip_wpc EXCEPT ![w] = "loop"]
    /\ UNCHANGED <<ctlVars, ip_events, ip_playing, ip_paused, ip_speed,
                   ip_current_index, ip_callbacks, ip_cpc, ip_event, ip_wait,
                   ip_dispatched, ip_complete, ip_rejected>>

\* _playback_thread lines 216-217 and 231-240: break after the last event
IP_End(w) ==
    /\ engine \in {"IP", "SE"}
    /\ UNCHANGED <<asVars, seVars, epVars, fnVars, ip_lock>>
    /\ ip_wpc[w] = "finish"
    /\ IP_Finish(w)
    /\ UNCHANGED <<ctlVars, ip_events, ip_speed, ip_current_index, ip_callbacks,
                   ip_cpc, ip_event, ip_wait, ip_dispatched, ip_rejected>>

\* the on_event callback of the worker (lines 204-206) calls stop_playback,
\* pause_playback or resume_playback of its own player (lines 141-172)
IP_Reenter(w) ==
    /\ engine = "IP"
    /\ UNCHANGED <<asVars, epVars, fnVars, ip_lock>>
    /\ ip_wpc[w] = "play"
    /\ ~reentered
    /\ \E call \in {"stop", "pause", "resume"} :
         /\ CASE call = "stop" -> ip_playing /\ ~stopIssued
              [] call = "pause" -> ip_playing /\ ~ip_paused
              [] OTHER -> ip_playing /\ ip_paused
         /\ IF ip_lock = w
            THEN /\ ip_wpc' = [ip_wpc EXCEPT ![w] = "stuck"]
                 /\ UNCHANGED <<ctlVars, ip_playing, ip_paused, reentered>>
            ELSE /\ Acquirable(ip_lock)
                 /\ reentered' = TRUE
                 /\ ip_playing' = (call /= "stop")
                 /\ ip_paused' = (call = "pause")
                 /\ stopIssued' = (stopIssued \/ call = "stop")
                 /\ stopInPause' = IF call = "stop" THEN ip_paused ELSE stopInPause
                 /\ pauseIssued' = (pauseIssued \/ call = "pause")
                 /\ UNCHANGED <<engine, maxStarts, starts, ip_wpc>>
    /\ UNCHANGED <<se_script, se_executing, se_paused, se_current_step_index,
                   se_variables, se_callbacks, se_cpc, se_wpc, se_step_index, se_i,
                   se_trace, se_iters, se_last, se_complete, se_rejected, se_rec,
                   se_lock, loaded>>
    /\ UNCHANGED <<ip_events, ip_speed, ip_current_index, ip_callbacks, ip_cpc,
                   ip_event, ip_wait, ip_dispatched, ip_complete, ip_rejected>>

\* the list of a load_events call made during playback
LoadedEvents == [i \in 1..MaxEvents |-> MaxTime]

\* InputPlayer.load_events lines 72-74, called while the first session of a
\* behaviour is active and its worker is between two rounds of its loop
IP_LoadEvents ==
    /\ engine = "IP"
    /\ UNCHANGED <<asVars, epVars, fnVars, ip_lock>>
    /\ Acquirable(ip_lock)
    /\ ip_playing /\ ~loaded /\ starts <= 1
    /\ \A w \in Workers : ip_wpc[w] \in {"none", "dead", "loop", "wait"}
    /\ loaded' = TRUE
    /\ ip_events' = LoadedEvents
    /\ ip_current_index' = 0
    /\ UNCHANGED <<se_script, se_executing, se_paused, se_current_step_index,
                   se_variables, se_callbacks, se_cpc, se_wpc, se_step_index, se_i,
                   se_trace, se_iters, se_last, se_complete, se_rejected, se_rec,
                   se_lock, reentered>>
    /\ UNCHANGED <<ctlVars, ip_playing, ip_paused, ip_speed, ip_callbacks, ip_cpc,
                   ip_wpc, ip_event, ip_wait, ip_dispatched, ip_complete, ip_rejected>>

IP_Init ==
    /\ ip_playing = FALSE
    /\ ip_paused = FALSE
    /\ ip_speed = 10
    /\ ip_current_index = 0
    /\ ip_callbacks = 0
    /\ ip_cpc = [c \in Callers |-> "idle"]
    /\ ip_wpc = [w \in Workers |-> "none"]
    /\ ip_event = [w \in Workers |-> 0]
    /\ ip_wait = [w \in Workers |-> NoWait]
    /\ ip_dispatched = <<>>
    /\ ip_complete = <<>>
    /\ ip_rejected = 0
    /\ ip_lock = 0

IP_Next ==
    \/ \E c \in Callers : IP_StartCheck(c)
    \/ \E c \in Callers : IP_StartPlayback(c)
    \/ \E w \in Workers : IP_LoopCheck(w)
    \/ \E w \in Workers : IP_Fetch(w)
    \/ \E w \in Workers : IP_PlayEvent(w)
    \/ \E w \in Workers : IP_Wait(w)
    \/ \E w \in Workers : IP_End(w)
    \/ \E w \in Workers : IP_Reenter(w)
    \/ IP_LoadEvents
    \/ IP_StopPlayback
    \/ IP_PausePlayback
    \/ IP_ResumePlayback
    \/ IP_SetSpeed

-----------------------------------------------------------------------------
(* EventPlayer.  An event is its "time" field; speed is kept in tenths and *)
(* is whatever the caller passed.  The engine also serves as the player of *)
(* AutomationScript's play_recording step (engine = "AS").                 *)
EP_StartSpeeds == {-10, 0, 10, 200}
EP_MultiEventLists == {<<1, 2>>}

EP_NoWait == [index |-> -1, dt |-> 0, speed |-> 10]

\* whether (event_time - last_event_time) / self.speed > 0, for speed /= 0
EP_Positive(dt, speed) == (dt > 0 /\ speed > 0) \/ (dt < 0 /\ speed < 0)

\* EventPlayer.start_playback lines 92-120 (a call that finds the player playing
\* returns False and changes nothing)
EP_StartPlayback ==
    /\ engine = "EP"
    /\ UNCHANGED <<asVars, seVars, ipVars, fnVars>>
    /\ ~ep_playing /\ ep_events /= <<>>
    /\ ep_pc \in {"none", "dead"} /\ ep_cpc = "idle"
    /\ starts < maxStarts
    /\ starts' = starts + 1
    /\ \E speed \in EP_StartSpeeds : EP_Start(ep_events, speed)
    /\ UNCHANGED <<engine, maxStarts, stopIssued, stopInPause, pauseIssued, ep_cpc,
                   ep_wait, ep_dispatched, ep_on_stop, ep_on_error>>

EP_StopPlayback ==
    /\ engine = "EP"
    /\ UNCHANGED <<asVars, seVars, ipVars, fnVars>>
    /\ ep_playing /\ ep_cpc = "idle"
    /\ ~stopIssued
    /\ stopIssued' = TRUE
    /\ stopInPause' = ep_paused
    /\ EP_Stop
    /\ ep_cpc' = "join"
    /\ UNCHANGED <<engine, maxStarts, starts, pauseIssued, ep_events, ep_paused, ep_speed,
                   ep_pc, ep_i, ep_last_event_time, ep_wait, ep_dispatched, ep_on_stop,
                   ep_on_error>>

\* EventPlayer.stop_playback lines 142-151: the worker has ended, on_stop
EP_StopJoined ==
    /\ engine = "EP"
    /\ UNCHANGED <<asVars, seVars, ipVars, fnVars>>
    /\ ep_cpc = "join"
    /\ ep_pc \in {"none", "dead"}
    /\ ep_cpc' = "idle"
    /\ ep_on_stop' = ep_on_stop + 1
    /\ UNCHANGED <<ctlVars, ep_events, ep_playing, ep_paused, ep_stop_event, ep_speed,
                   ep_pc, ep_i, ep_last_event_time, ep_wait, ep_dispatched, ep_on_error>>

\* EventPlayer.pause_playback
EP_PausePlayback ==
    /\ engine = "EP"
    /\ UNCHANGED <<asVars, seVars, ipVars, fnVars>>
    /\ ep_playing /\ ~ep_paused
    /\ ep_paused' = TRUE
    /\ pauseIssued' = TRUE
    /\ UNCHANGED <<engine, maxStarts, starts, stopIssued, stopInPause, ep_events,
                   ep_playing, ep_stop_event, ep_speed, ep_pc, ep_cpc, ep_i,
                   ep_last_event_time, ep_wait, ep_dispatched, ep_on_stop, ep_on_error>>

\* EventPlayer.resume_playback
EP_ResumePlayback ==
    /\ engine = "EP"
    /\ UNCHANGED <<asVars, seVars, ipVars, fnVars>>
    /\ ep_playing /\ ep_paused
    /\ ep_paused' = FALSE
    /\ UNCHANGED <<ctlVars, ep_events, ep_playing, ep_stop_event, ep_speed, ep_pc,
                   ep_cpc, ep_i, ep_last_event_time, ep_wait, ep_dispatched, ep_on_stop,
                   ep_on_error>>

\* _playback_loop lines 207-210: the next round of the for loop, the stop check
EP_LoopTop ==
    /\ engine \in {"EP", "AS"}
    /\ UNCHANGED <<asVars, seVars, ipVars, fnVars>>
    /\ ep_pc = "top"
    /\ ep_pc' = IF ep_i >= Len(ep_events) \/ ep_stop_event THEN "finally" ELSE "poll"
    /\ UNCHANGED <<ctlVars, ep_events, ep_playing, ep_paused, ep_stop_event, ep_speed,
                   ep_cpc, ep_i, ep_last_event_time, ep_wait, ep_dispatched, ep_on_stop,
                   ep_on_error>>

\* a dispatch whose exception ends the loop
EP_Dispatch_FailHard ==
    /\ Len(ep_dispatched) < MaxTrace
    /\ \E raised \in BOOLEAN :
         /\ ep_dispatched' = Append(ep_dispatched, <<ep_i, raised>>)
         /\ ep_pc' = IF raised THEN "finally" ELSE "top"
    /\ ep_last_event_time' = ep_events[ep_i + 1]
    /\ ep_i' = ep_i + 1

\* _playback_loop lines 226-234: _execute_event (which catches what the sink
\* raises), on_event, last_event_time
EP_Dispatch ==
    /\ Len(ep_dispatched) < MaxTrace
    /\ \E raised \in BOOLEAN : ep_dispatched' = Append(ep_dispatched, <<ep_i, raised>>)
    /\ ep_last_event_time' = ep_events[ep_i + 1]
    /\ ep_i' = ep_i + 1
    /\ ep_pc' = "top"

\* _playback_loop lines 212-224 (and 226-234 when there is nothing to wait for):
\* pause poll, second stop check, the wait before the event
EP_PausePoll ==
    /\ engine \in {"EP", "AS"}
    /\ UNCHANGED <<asVars, seVars, ipVars, fnVars>>
    /\ ep_pc = "poll"
    /\ ~(ep_paused /\ ~ep_stop_event)
    /\ IF ep_stop_event
       THEN /\ ep_pc' = "finally"
            /\ UNCHANGED <<ep_i, ep_last_event_time, ep_wait, ep_dispatched, ep_on_error>>
       ELSE IF ep_speed = 0
       THEN /\ ep_pc' = "finally"     \* ZeroDivisionError: lines 237-241
            /\ ep_on_error' = ep_on_error + 1
            /\ UNCHANGED <<ep_i, ep_last_event_time, ep_wait, ep_dispatched>>
       ELSE LET dt == ep_events[ep_i + 1] - ep_last_event_time
            IN  /\ ep_wait' = [index |-> ep_i, dt |-> dt, speed |-> ep_speed]
                /\ UNCHANGED ep_on_error
                /\ IF EP_Positive(dt, ep_speed)
                   THEN /\ ep_pc' = "wait"
                        /\ UNCHANGED <<ep_i, ep_last_event_time, ep_dispatched>>
                   ELSE EP_Dispatch
    /\ UNCHANGED <<ctlVars, ep_events, ep_playing, ep_paused, ep_stop_event, ep_speed,
                   ep_cpc, ep_on_stop>>

\* _playback_loop lines 223-234: time.sleep(wait_time) returns, the event is executed
EP_Wait ==
    /\ engine \in {"EP", "AS"}
    /\ UNCHANGED <<asVars, seVars, ipVars, fnVars>>
    /\ ep_pc = "wait"
    /\ EP_Dispatch
    /\ UNCHANGED <<ctlVars, ep_events, ep_playing, ep_paused, ep_stop_event, ep_speed,
                   ep_cpc, ep_wait, ep_on_stop, ep_on_error>>

\* _playback_loop lines 243-248: the finally clause
EP_Finally ==
    /\ engine \in {"EP", "AS"}
    /\ UNCHANGED <<asVars, seVars, ipVars, fnVars>>
    /\ ep_pc = "finally"
    /\ ep_playing' = FALSE
    /\ ep_on_stop' = ep_on_stop + 1
    /\ ep_pc' = "dead"
    /\ UNCHANGED <<ctlVars, ep_events, ep_paused, ep_stop_event, ep_speed, ep_cpc, ep_i,
                   ep_last_event_time, ep_wait, ep_dispatched, ep_on_error>>

EP_Init ==
    /\ ep_playing = FALSE
    /\ ep_paused = FALSE
    /\ ep_stop_event = FALSE
    /\ ep_speed = 10
    /\ ep_pc = "none"
    /\ ep_cpc = "idle"
    /\ ep_i = 0
    /\ ep_last_event_time = 0
    /\ ep_wait = EP_NoWait
    /\ ep_dispatched = <<>>
    /\ ep_on_stop = 0
    /\ ep_on_error = 0

EP_Next ==
    \/ EP_StartPlayback
    \/ EP_StopPlayback
    \/ EP_StopJoined
    \/ EP_PausePlayback
    \/ EP_ResumePlayback
    \/ EP_LoopTop
    \/ EP_PausePoll
    \/ EP_Wait
    \/ EP_Finally

\* AutomationScript._resolve_value has not been called
RV_NotCalled == [called |-> FALSE, raised |-> "", ret |-> PyNone]

\* one call of _resolve_value
RV_Resolve ==
    /\ engine = "RV"
    /\ UNCHANGED <<ctlVars, asVars, seVars, ipVars, epVars, rcVars>>
    /\ ~rv_result.called
    /\ LET r == _resolve_value(rv_value, rv_variables)
       IN  rv_result' = [called |-> TRUE, raised |-> r.raised, ret |-> r.ret]
    /\ UNCHANGED <<rv_value, rv_variables>>

RV_Init ==
    /\ rv_result = RV_NotCalled

RV_Next == RV_Resolve

-----------------------------------------------------------------------------
(* InputRecorder.add_event and InputPlayer._playback_thread on the list it *)
(* produces.  Times are in tenths of a second; an event is its type, its   *)
(* timestamp and, for a wait event, its duration.                          *)
RC_Input(t) == [type |-> "key", timestamp |-> t, duration |-> 0]
WaitEvent(timestamp, duration) ==
    [type |-> "wait", timestamp |-> timestamp, duration |-> duration]

\* the delivered timestamps: the gaps between them are none, the 0.1 s that
\* add_event ignores, or more
RECURSIVE RC_Stamps(_, _)
RC_Stamps(gaps, from) ==
    IF gaps = <<>> THEN <<>>
    ELSE <<from + Head(gaps)>> \o RC_Stamps(Tail(gaps), from + Head(gaps))
RC_Inputs ==
    {RC_Stamps(gaps, 0) : gaps \in UNION {[1..n -> {0, 1, MaxTime}] : n \in 1..MaxEvents}}
RC_Speeds == {5, 10}

\* add_event lines 501-515 with recording.add_waits on: a wait event of the
\* gap before every event that follows a gap above 0.1 s
add_event(events, last_event_time, event) ==
    LET wait_time == event.timestamp - last_event_time
    IN  IF events /= <<>> /\ wait_time > 1
        THEN events \o <<WaitEvent(last_event_time, wait_time), event>>
        ELSE Append(events, event)

\* time.sleep(dt / self.speed), in tenths of a second
RC_Sleep(dt, speed) == (dt * 10) \div speed

\* _play_event lines 262-263 and _play_wait_event lines 380-383
_play_wait_event(event, speed) ==
    IF event.type = "wait" THEN RC_Sleep(event.duration, speed) ELSE 0

\* _playback_thread lines 226-229: the wait before the next event
RC_Between(event, next_event, speed) ==
    IF next_event.timestamp > event.timestamp
    THEN RC_Sleep(next_event.timestamp - event.timestamp, speed)
    ELSE 0

\* a hook delivers the next event to add_event
RC_AddEvent ==
    /\ engine = "RC"
    /\ UNCHANGED <<ctlVars, asVars, seVars, ipVars, epVars, rvVars>>
    /\ rc_pc = "record" /\ rc_added < Len(rc_input)
    /\ rc_events' = add_event(rc_events, rc_last_event_time, RC_Input(rc_input[rc_added + 1]))
    /\ rc_last_event_time' = rc_input[rc_added + 1]
    /\ rc_added' = rc_added + 1
    /\ UNCHANGED <<rc_input, rc_speed, rc_index, rc_slept, rc_pc>>

\* stop_recording, load_events and start_playback: the replay of the list
RC_StartReplay ==
    /\ engine = "RC"
    /\ UNCHANGED <<ctlVars, asVars, seVars, ipVars, epVars, rvVars>>
    /\ rc_pc = "record" /\ rc_added = Len(rc_input)
    /\ rc_pc' = "replay"
    /\ rc_index' = 0
    /\ UNCHANGED <<rc_input, rc_speed, rc_events, rc_last_event_time, rc_added, rc_slept>>

\* _playback_thread lines 196-229: one round of the loop
RC_Play ==
    /\ engine = "RC"
    /\ UNCHANGED <<ctlVars, asVars, seVars, ipVars, epVars, rvVars>>
    /\ rc_pc = "replay"
    /\ LET event == rc_events[rc_index + 1]
           played == _play_wait_event(event, rc_speed)
       IN  /\ rc_index' = rc_index + 1
           /\ IF rc_index + 1 >= Len(rc_events)
              THEN /\ rc_slept' = rc_slept + played
                   /\ rc_pc' = "done"
              ELSE /\ rc_slept' = rc_slept + played
                                     + RC_Between(event, rc_events[rc_index + 2], rc_speed)
                   /\ UNCHANGED rc_pc
    /\ UNCHANGED <<rc_input, rc_speed, rc_events, rc_last_event_time, rc_added>>

RC_Init ==
    /\ rc_events = <<>>
    /\ rc_last_event_time = 0
    /\ rc_added = 0
    /\ rc_index = 0
    /\ rc_slept = 0
    /\ rc_pc = "record"

RC_Next == RC_AddEvent \/ RC_StartReplay \/ RC_Play

-----------------------------------------------------------------------------
(* One session: a single start call, then pause, resume and stop at will.  *)
Init ==
    /\ engine \in {"AS", "SE", "IP", "EP", "RV", "RC"}
    /\ maxStarts = 1
    /\ starts = 0
    /\ stopIssued = FALSE
    /\ stopInPause = FALSE
    /\ pauseIssued = FALSE
    /\ AS_Init
    /\ SE_Init
    /\ IP_Init
    /\ as_steps \in (IF engine = "AS" THEN Programs ELSE {<<>>})
    /\ se_script \in (IF engine = "SE" THEN SE_Programs ELSE {<<>>})
    /\ ip_events \in (IF engine = "IP" THEN EventLists ELSE {<<>>})
    /\ EP_Init
    /\ ep_events \in (IF engine = "EP" THEN EventLists ELSE {<<>>})
    /\ RV_Init
    /\ rv_value \in (IF engine = "RV" THEN RV_Values ELSE {<<>>})
    /\ rv_variables \in (IF engine = "RV" THEN RV_Bags ELSE {<<>>})
    /\ RC_Init
    /\ rc_input \in (IF engine = "RC" THEN RC_Inputs ELSE {<<>>})
    /\ rc_speed \in (IF engine = "RC" THEN RC_Speeds ELSE {10})

Next == AS_Next \/ SE_Next \/ IP_Next \/ EP_Next \/ RV_Next \/ RC_Next

Spec == Init /\ [][Next]_vars

(* Several start calls from several caller threads.                        *)
InitMulti ==
    /\ engine \in {"AS", "SE", "IP", "EP", "RV", "RC"}
    /\ maxStarts = MaxCalls
    /\ starts = 0
    /\ stopIssued = FALSE
    /\ stopInPause = FALSE
    /\ pauseIssued = FALSE
    /\ AS_Init
    /\ SE_Init
    /\ IP_Init
    /\ as_steps \in (IF engine = "AS" THEN MultiPrograms ELSE {<<>>})
    /\ se_script \in (IF engine = "SE" THEN SE_MultiPrograms ELSE {<<>>})
    /\ ip_events \in (IF engine = "IP" THEN MultiEventLists ELSE {<<>>})
    /\ EP_Init
    /\ ep_events \in (IF engine = "EP" THEN EP_MultiEventLists ELSE {<<>>})
    /\ RV_Init
    /\ rv_value \in (IF engine = "RV" THEN RV_Values ELSE {<<>>})
    /\ rv_variables \in (IF engine = "RV" THEN RV_Bags ELSE {<<>>})
    /\ RC_Init
    /\ rc_input \in (IF engine = "RC" THEN RC_Inputs ELSE {<<>>})
    /\ rc_speed \in (IF engine = "RC" THEN RC_Speeds ELSE {10})

SpecMulti == InitMulti /\ [][Next]_vars

(* One session under fair scheduling: a thread that can take a step of     *)
(* run_script, _execute_thread or _playback_thread eventually takes it     *)
(* (the handlers and sleeps return).                                       *)
AS_Worker == \E t \in Threads : \/ AS_LoopCheck(t) \/ AS_PausePoll(t) \/ AS_Fetch(t)
                                 \/ AS_Execute(t) \/ AS_ReplayPoll(t) \/ AS_ReplayJoin(t)
SE_Worker == \E w \in Workers : \/ SE_LoopCheck(w) \/ SE_Fetch(w) \/ SE_Execute(w)
                                 \/ SE_LoopIter(w) \/ SE_RecordingWait(w)
IP_Worker == \E w \in Workers : IP_LoopCheck(w) \/ IP_Fetch(w) \/ IP_PlayEvent(w) \/ IP_Wait(w) \/ IP_End(w)

EP_Worker == EP_LoopTop \/ EP_PausePoll \/ EP_Wait \/ EP_Finally

SpecFair ==
    Spec /\ WF_vars(AS_Worker) /\ WF_vars(SE_Worker) /\ WF_vars(IP_Worker)
         /\ WF_vars(EP_Worker)

-----------------------------------------------------------------------------
(* Helpers of the properties *)
Last(seq) == seq[Len(seq)]
Count(seq, x) == Cardinality({i \in 1..Len(seq) : seq[i] = x})
Upto(n) == [i \in 1..n |-> i - 1]
IsPrefix(a, b) == Len(a) <= Len(b) /\ \A i \in 1..Len(a) : a[i] = b[i]

\* a program of enabled steps with Sequential jump policy only
IsSequential(p) ==
    /\ p /= <<>>
    /\ \A i \in 1..Len(p) :
         /\ p[i].enabled
         /\ ~Has(p[i].next_step)
         /\ ~Has(p[i].on_failure)
         /\ p[i].type \notin {"condition", "loop", "end_loop"}

AS_Done(t) == as_pc[t] = "done"
AS_Started(t) == as_pc[t] /= "idle"

-----------------------------------------------------------------------------
C1_InOrder ==
    (engine = "AS" /\ IsSequential(as_steps)) =>
        /\ IsPrefix(as_trace, Upto(Len(as_steps)))
        /\ \A t \in Threads :
             (AS_Done(t) /\ ~stopIssued) =>
                 /\ as_trace = Upto(Len(as_steps))
                 /\ as_result[t] = <<TRUE>>

(* C1: a program of n enabled steps without next_step, on_failure,         *)
(* condition, loop or end_loop, run by AutomationScript.run_script from    *)
(* index 0 and not stopped, has its steps 0..n-1 executed exactly once     *)
(* each in ascending order, whatever each handler returns, and the run     *)
(* then terminates (unless it is left paused).                             *)
C1_Sequential ==
    /\ []C1_InOrder
    /\ \A t \in Threads :
         (engine = "AS" /\ IsSequential(as_steps) /\ AS_Started(t))
            ~> (AS_Done(t) \/ as_paused)

\* a run of three steps has finished although its last step failed
C1_Witness ==
    /\ engine = "AS"
    /\ IsSequential(as_steps)
    /\ Len(as_steps) = 3
    /\ \E t \in Threads : AS_Done(t)
    /\ ~stopIssued
    /\ as_trace = <<0, 1, 2>>
    /\ ~as_last.success

-----------------------------------------------------------------------------
IsBranch(step) ==
    /\ step.type = "condition"
    /\ Has(step.then_step) /\ Val(step.then_step) \in 0..(Len(as_steps) - 1)
    /\ Has(step.else_step) /\ Val(step.else_step) \in 0..(Len(as_steps) - 1)

\* thread t has fetched the step that follows the execution recorded in as_last
AS_FetchedNext(t) == as_pc[t] = "exec" /\ as_last.index >= 0

(* C2: after a condition step with then_step = T and else_step = F (valid  *)
(* indices) the next step AutomationScript executes is the step at index T *)
(* when the condition is true and the step at index F when it is false.    *)
C2_ConditionBranch ==
    engine = "AS" =>
        \A t \in Threads :
            (AS_FetchedNext(t) /\ IsBranch(as_steps[as_last.index + 1])) =>
                LET step == as_steps[as_last.index + 1]
                IN  /\ as_last.outcome = "true" => as_step[t] = Val(step.then_step)
                    /\ as_last.outcome = "false" => as_step[t] = Val(step.else_step)

-----------------------------------------------------------------------------
IsCountProgram(p) == p \in CountPrograms
BodyRuns == Count(as_trace, 1)     \* the body is the step at index 1
LoopStartRuns == Count(as_trace, 0)
AfterRuns == Count(as_trace, 3)    \* the step after end_loop is at index 3

(* C3: a count loop of AutomationScript with count = N executes its body   *)
(* exactly N times and the run then continues with the step after the      *)
(* end_loop step; for N = 0 the body is not executed.                      *)
C3_CountLoop ==
    (engine = "AS" /\ IsCountProgram(as_steps)) =>
        /\ BodyRuns <= as_steps[1].count.num
        /\ AfterRuns > 0 => BodyRuns = as_steps[1].count.num

-----------------------------------------------------------------------------
(* C4: a while loop of AutomationScript evaluates its predicate again      *)
(* before every body iteration: with the predicate true on k evaluations   *)
(* the body runs exactly k times.                                          *)
C4_WhileLoop ==
    (engine = "AS" /\ as_steps \in WhilePrograms) =>
        BodyRuns <= LoopStartRuns

-----------------------------------------------------------------------------
(* C5: a step whose handler returns success = false never ends the run by  *)
(* itself, in AutomationScript.run_script and in ScriptExecutor: a run     *)
(* that was not stopped ends only when the index has left the program.     *)
C5_FailureContinues ==
    /\ engine = "AS" =>
         \A t \in Threads :
            (AS_Done(t) /\ ~stopIssued /\ as_result[t] = <<TRUE>>) =>
                as_current_step >= Len(as_steps)
    /\ engine = "SE" =>
         \A w \in Workers :
            (se_wpc[w] = "dead" /\ ~stopIssued) =>
                se_current_step_index >= Len(se_script)

-----------------------------------------------------------------------------
(* C6: an exception raised inside a step handler ends the run in           *)
(* Completed-Failure: no later step is executed and the completion         *)
(* callback gets success = false, in AutomationScript and ScriptExecutor.  *)
C6_HandlerFaultFatal ==
    /\ (engine = "AS" /\ as_last.outcome = "raise") =>
         /\ \A t \in Threads : as_pc[t] /= "exec"
         /\ \A t \in Threads : AS_Done(t) => Last(as_script_end) = FALSE
    /\ (engine = "SE" /\ se_last.raised) =>
         /\ \A w \in Workers : se_wpc[w] \in {"none", "dead"}
         /\ se_complete /= <<>> /\ ~Last(se_complete).success

-----------------------------------------------------------------------------
StartCall == starts' = starts + 1

(* C7: a start call issued while a run is active is rejected and leaves    *)
(* the run's current step index, variable bag, loop frames and callbacks   *)
(* untouched, in ScriptExecutor.execute and AutomationScript.run_script.   *)
C7_BusyRejected ==
    [][/\ (engine = "AS" /\ StartCall /\ as_running) =>
            /\ as_rejected'
            /\ UNCHANGED <<as_current_step, as_variables, as_loop_counters>>
       /\ (engine = "SE" /\ StartCall /\ se_executing) =>
            /\ se_rejected' = se_rejected + 1
            /\ UNCHANGED <<se_current_step_index, se_variables, se_callbacks, se_cpc>>
      ]_vars

-----------------------------------------------------------------------------
IP_InLoop == {w \in Workers : ip_wpc[w] \in {"fetch", "play", "wait"}}
SE_InLoop == {w \in Workers : se_wpc[w] \in {"fetch", "exec", "iter", "recwait"}}

(* C8: under every interleaving of start and stop calls at most one worker *)
(* of an InputPlayer is inside the dispatch loop and at most one worker of *)
(* a ScriptExecutor is inside the run loop.                                *)
C8_SingleWorker ==
    /\ Cardinality(IP_InLoop) <= 1
    /\ Cardinality(SE_InLoop) <= 1

-----------------------------------------------------------------------------
SE_IsCountLoop(step) == step.type = "loop" /\ step.loop_type = "count" /\ Has(step.loop_step)

(* C9: pausing and resuming a run does not change what is executed: a run  *)
(* that was not stopped executes the same steps and loop-body iterations   *)
(* as without the pause.                                                   *)
C9_PauseTransparent ==
    /\ (engine = "AS" /\ IsSequential(as_steps)) =>
         \A t \in Threads : (AS_Done(t) /\ ~stopIssued) => as_trace = Upto(Len(as_steps))
    /\ (engine = "SE" /\ ~stopIssued /\ se_last.index >= 0) =>
         LET step == se_script[se_last.index + 1]
         IN  (SE_IsCountLoop(step) /\ se_last.success) => se_iters = step.count

\* the same statement for the runs that were never paused
C9_WithoutPause ==
    pauseIssued \/ C9_PauseTransparent

-----------------------------------------------------------------------------
AS_OutOfLoop == \A t \in Threads : as_pc[t] \in {"idle", "done"}
SE_OutOfLoop == \A w \in Workers : se_wpc[w] \in {"none", "dead"}

C10_FlagFalse == stopIssued => (~as_running /\ ~se_executing)

\* after stop() the loop check admits no further iteration and no handler starts;
\* the step of an iteration admitted before stop() is the step in flight
C10_NoFurtherStep ==
    stopIssued =>
        /\ as_trace' = as_trace
        /\ se_iters' = se_iters
        /\ \A t \in Threads : as_pc[t] = "loop" => as_pc'[t] /= "poll"
        /\ \A w \in Workers : se_wpc[w] = "loop" => se_wpc'[w] /= "fetch"
        /\ (\A w \in Workers : se_wpc[w] /= "fetch") => se_trace' = se_trace

-----------------------------------------------------------------------------
\* the run of thread t / worker w has ended with steps of the program left
AS_EndedEarly(t) == AS_Done(t) /\ as_current_step \in 0..(Len(as_steps) - 1)
SE_EndedEarly(w) == se_wpc[w] = "dead" /\ se_current_step_index < Len(se_script)

(* C11: a run that ends because stop() was called ends in an outcome       *)
(* distinct from Completed-Success: with steps left unexecuted, neither    *)
(* the completion callback (on_script_end / on_script_complete) nor the    *)
(* return value of run_script reports success = true.                      *)
C11_StoppedNotSuccess ==
    /\ (engine = "AS" /\ stopIssued) =>
         \A t \in Threads :
            AS_EndedEarly(t) =>
                /\ Last(as_script_end) = FALSE
                /\ as_result[t] = <<FALSE>>
    /\ (engine = "SE" /\ stopIssued) =>
         \A w \in Workers :
            SE_EndedEarly(w) => ~Last(se_complete).success

-----------------------------------------------------------------------------
\* thread t / worker w is inside the wait of a replay step
AS_InReplay(t) == as_pc[t] \in {"replay", "replay_join"}
SE_InReplay(w) == se_wpc[w] = "recwait"

\* the replay step returns, the run having been stopped during its wait
C12_ReturnAfterStop ==
    /\ \A t \in Threads :
         (engine = "AS" /\ stopIssued /\ AS_InReplay(t) /\ ~AS_InReplay(t)') =>
            /\ ~ep_playing' /\ ep_pc' \in {"none", "dead"}
            /\ ~as_last'.success
    /\ \A w \in Workers :
         (engine = "SE" /\ stopIssued /\ SE_InReplay(w) /\ ~SE_InReplay(w)') =>
            /\ ~ip_playing' /\ \A v \in Workers : ip_wpc'[v] \in {"none", "dead"}
            /\ ~se_last'.success

(* C12: when the parent run is stopped while a replay step waits for its  *)
(* sub-session, the replay step stops the sub-session (playing false, no   *)
(* further event dispatched) and returns failure, in                       *)
(* AutomationScript._execute_play_recording and in                         *)
(* ScriptExecutor._execute_recording.                                      *)
C12_ReplayStopped ==
    /\ [][C12_ReturnAfterStop]_vars
    /\ [][\A w \in Workers :
            (engine = "SE" /\ stopIssued /\ SE_InReplay(w)) => UNCHANGED ip_dispatched]_vars

-----------------------------------------------------------------------------
\* the indices dispatched to the input sink, in order of dispatch
IP_Order == [k \in 1..Len(ip_dispatched) |-> ip_dispatched[k][2]]
EP_Order == [k \in 1..Len(ep_dispatched) |-> ep_dispatched[k][1]]

\* nobody has called stop or pause on the session
Uninterrupted == ~stopIssued /\ ~pauseIssued

Max(a, b) == IF a >= b THEN a ELSE b

C13_InputPlayer ==
    (engine = "IP" /\ Uninterrupted) =>
        /\ IsPrefix(IP_Order, Upto(Len(ip_events)))
        /\ \A w \in Workers :
             /\ ip_wpc[w] = "dead" => IP_Order = Upto(Len(ip_events))
             /\ (ip_wpc[w] = "wait"
                   /\ ip_events[ip_current_index + 1] <= ip_events[ip_current_index])
                => ip_wait[w].dt = 0

C13_EventPlayer ==
    (engine = "EP" /\ Uninterrupted) =>
        /\ IsPrefix(EP_Order, Upto(Len(ep_events)))
        /\ ep_pc = "dead" => EP_Order = Upto(Len(ep_events))
        /\ (ep_pc = "wait" /\ ep_i >= 1) => ep_events[ep_i + 1] > ep_events[ep_i]

(* C13: an uninterrupted playback session dispatches the events in the     *)
(* order of the loaded list, each event exactly once, and an event whose   *)
(* timestamp is not greater than its predecessor's is dispatched with zero *)
(* wait, in InputPlayer and in EventPlayer.                                *)
C13_ListOrder == C13_InputPlayer /\ C13_EventPlayer

-----------------------------------------------------------------------------
C14_InputPlayer ==
    engine = "IP" =>
        \A w \in Workers :
            ip_wpc[w] = "wait" =>
                /\ ip_current_index >= 1
                /\ ip_wait[w].dt
                     = Max(0, ip_events[ip_current_index + 1] - ip_events[ip_current_index])
                /\ ip_wait[w].speed \in {ClampSpeed(x) : x \in StartSpeeds}

C14_EventPlayer ==
    (engine = "EP" /\ ep_pc = "wait") =>
        /\ ep_i >= 1
        /\ ep_wait.dt = ep_events[ep_i + 1] - ep_events[ep_i]
        /\ ep_wait.dt > 0

(* C14: the first event of a playback session is dispatched without a      *)
(* preceding wait, and the wait before a later event i is                  *)
(* max(0, (t[i] - t[i-1]) / speed) with the speed of that moment, in       *)
(* InputPlayer and in EventPlayer.                                         *)
C14_WaitBeforeEvent == C14_InputPlayer /\ C14_EventPlayer

-----------------------------------------------------------------------------
\* a playback session of its own (not the sub-session of a replay step)
IsPlayback == engine \in {"IP", "EP"}

C15_NoDispatchAfterStop ==
    (IsPlayback /\ stopIssued) => UNCHANGED <<ip_dispatched, ep_dispatched>>

(* C15: once stop() has been issued on a playback session, also during the *)
(* wait before an event, no further event is dispatched to the input sink, *)
(* and playing is false afterwards.                                        *)
C15_StopHaltsDispatch ==
    /\ [][C15_NoDispatchAfterStop]_vars
    /\ []((IsPlayback /\ stopIssued) => (~ip_playing /\ ~ep_playing))

-----------------------------------------------------------------------------
C16_NoDispatchWhilePaused ==
    /\ (engine = "IP" /\ ip_paused) => UNCHANGED ip_dispatched
    /\ (engine = "EP" /\ ep_paused) => UNCHANGED ep_dispatched

C16_ResumedInOrder ==
    /\ (engine = "IP" /\ ~stopIssued) =>
         /\ IsPrefix(IP_Order, Upto(Len(ip_events)))
         /\ \A w \in Workers : ip_wpc[w] = "dead" => IP_Order = Upto(Len(ip_events))
    /\ (engine = "EP" /\ ~stopIssued) => IsPrefix(EP_Order, Upto(Len(ep_events)))

(* C16: while a playback session is paused no event is dispatched, also    *)
(* when pause() arrives during the wait before an event; after resume()    *)
(* the remaining events are dispatched in the original order, none skipped *)
(* and none dispatched twice.                                              *)
C16_PauseHoldsDispatch ==
    /\ [][C16_NoDispatchWhilePaused]_vars
    /\ []C16_ResumedInOrder

-----------------------------------------------------------------------------
\* [0.1, 10.0] in tenths
SpeedRange == 1..100

(* C17: in every reachable state of a playback session the speed used to   *)
(* compute a wait lies in [0.1, 10.0], whatever the caller passed to       *)
(* start_playback or set_speed, in InputPlayer and in EventPlayer.         *)
C17_SpeedClamped ==
    /\ engine = "IP" =>
         /\ ip_speed \in SpeedRange
         /\ \A w \in Workers : ip_wait[w].speed \in SpeedRange
    /\ engine = "EP" =>
         /\ ep_pc /= "none" => ep_speed \in SpeedRange
         /\ ep_wait.speed \in SpeedRange

-----------------------------------------------------------------------------
\* a dispatch of the session raised inside the input sink
IP_SomeRaised == \E k \in 1..Len(ip_dispatched) : ip_dispatched[k][3]
EP_SomeRaised == \E k \in 1..Len(ep_dispatched) : ep_dispatched[k][2]

\* the worker has not left its loop for good after the dispatch of index k;
\* the list is the one the session was started with (no load_events since)
C18_GoesOn ==
    /\ (engine = "IP" /\ ~stopIssued /\ ~loaded /\ IP_SomeRaised) =>
         /\ IsPrefix(IP_Order, Upto(Len(ip_events)))
         /\ \A w \in Workers :
              ip_wpc[w] \in {"finish", "dead"} => IP_Order = Upto(Len(ip_events))
    /\ (engine = "EP" /\ ~stopIssued /\ EP_SomeRaised) =>
         /\ IsPrefix(EP_Order, Upto(Len(ep_events)))
         /\ ep_pc \in {"finally", "dead"} =>
              (EP_Order = Upto(Len(ep_events)) /\ ep_on_error = 0)

(* C18: a failing dispatch never ends playback: when the dispatch of some  *)
(* events raises in the input sink, every event of the list is still       *)
(* attempted exactly once, in order, and a session that is not stopped     *)
(* finishes by reaching the end of the list.                               *)
C18_DispatchFailSoft ==
    /\ []C18_GoesOn
    /\ (engine = "IP" /\ IP_SomeRaised)
          ~> (stopIssued \/ ip_paused \/ \E w \in Workers : ip_wpc[w] = "dead")
    /\ (engine = "EP" /\ EP_SomeRaised) ~> (stopIssued \/ ep_paused \/ ep_pc = "dead")

\* both events of a list raised and the session ended at the end of the list
C18_Witness ==
    /\ engine = "EP" /\ ~stopIssued
    /\ ep_dispatched = <<<<0, TRUE>>, <<1, TRUE>>>>
    /\ ep_pc = "dead" /\ ep_on_error = 0

-----------------------------------------------------------------------------
\* the last event of the list has been dispatched
IP_AllDispatched == ip_events /= <<>> /\ IP_Order = Upto(Len(ip_events))
EP_AllDispatched == ep_events /= <<>> /\ EP_Order = Upto(Len(ep_events))

\* the session is over and its completion callback has run once
IP_Completed == ~ip_playing /\ Len(ip_complete) = 1
EP_Completed == ~ep_playing /\ ep_on_stop = 1

C19_AtMostOnce ==
    (IsPlayback /\ Uninterrupted) =>
        /\ Len(ip_complete) <= 1
        /\ ep_on_stop <= 1
        /\ (\E w \in Workers : ip_wpc[w] = "dead") => IP_Completed
        /\ ep_pc = "dead" => EP_Completed

(* C19: when an uninterrupted playback session has dispatched its last     *)
(* event, playing becomes false and the completion callback (InputPlayer   *)
(* on_complete, EventPlayer on_stop) is invoked exactly once.              *)
C19_CompletesOnce ==
    /\ []C19_AtMostOnce
    /\ (engine = "IP" /\ Uninterrupted /\ IP_AllDispatched)
          ~> (IP_Completed \/ ~Uninterrupted)
    /\ (engine = "EP" /\ Uninterrupted /\ EP_AllDispatched)
          ~> (EP_Completed \/ ~Uninterrupted)

\* a list of two events was played to its end and on_complete ran once
C19_Witness ==
    /\ engine = "IP" /\ Uninterrupted
    /\ Len(ip_events) = 2 /\ IP_AllDispatched
    /\ IP_Completed

-----------------------------------------------------------------------------
\* what a fail-soft resolution makes of one placeholder: the text of the
\* value its chain reaches, or the placeholder itself when the chain fails
C20_Piece(path, variables) ==
    LET r == replace_var(path, variables)
    IN  IF r.out = "ok" THEN PyStr(r.val) ELSE RV_Placeholder(path)

RECURSIVE C20_Text(_, _)
C20_Text(paths, variables) ==
    IF paths = <<>> THEN <<>>
    ELSE C20_Piece(Head(paths), variables) \o <<"_">> \o C20_Text(Tail(paths), variables)

(* C20: _resolve_value is fail-soft per placeholder: a placeholder whose   *)
(* chain fails (missing base name, missing map key, out-of-range or        *)
(* non-integer index, index accessor on a scalar or on a map) is left as   *)
(* its literal text, no exception leaves _resolve_value, and the other     *)
(* placeholders of the same string are still substituted.                  *)
C20_FailSoft ==
    (engine = "RV" /\ rv_result.called) =>
        /\ rv_result.raised = ""
        /\ \A paths \in RV_PathLists :
              rv_value = PyText(RV_Join(paths))
                 => rv_result.ret = PyText(C20_Text(paths, rv_variables))

-----------------------------------------------------------------------------
\* a reference as the specification reads it: a base name and accessors,
\* each a map lookup by key or a sequence lookup by index
C21_Key(k) == [kind |-> "key", key |-> k, index |-> 0]
C21_Idx(i) == [kind |-> "index", key |-> "", index |-> i]
C21_Accessors == {C21_Key("k"), C21_Key("q"), C21_Idx(0), C21_Idx(1), C21_Idx(5)}
C21_Refs ==
    {[base |-> b, accs |-> a] :
        b \in RV_Names \cup {"deep"}, a \in UNION {[1..n -> C21_Accessors] : n \in 0..2}}

\* the text of a reference
RECURSIVE C21_RenderAccs(_)
C21_RenderAccs(accs) ==
    IF accs = <<>> THEN <<>>
    ELSE (IF Head(accs).kind = "key" THEN <<".", Head(accs).key>>
          ELSE <<"[", CHOOSE t \in DOMAIN RV_IntTokens : RV_IntTokens[t] = Head(accs).index,
                 "]">>) \o C21_RenderAccs(Tail(accs))
C21_Render(ref) == <<ref.base>> \o C21_RenderAccs(ref.accs)

\* the value the accessors reach from v, applied left to right; "none" when
\* a key is missing, an index is out of range or the value has the wrong kind
RECURSIVE C21_Apply(_, _)
C21_Apply(v, accs) ==
    IF accs = <<>> \/ v.kind = "none" THEN v
    ELSE LET a == Head(accs)
         IN  IF a.kind = "key" /\ v.kind = "dict"
                    /\ \E j \in 1..Len(v.keys) : v.keys[j] = a.key
             THEN C21_Apply(v.items[CHOOSE j \in 1..Len(v.keys) : v.keys[j] = a.key],
                            Tail(accs))
             ELSE IF a.kind = "index" /\ v.kind = "list" /\ a.index \in 0..(Len(v.items) - 1)
             THEN C21_Apply(v.items[a.index + 1], Tail(accs))
             ELSE PyNone
C21_Value(ref, variables) ==
    IF ref.base \in DOMAIN variables THEN C21_Apply(variables[ref.base], ref.accs)
    ELSE PyNone

\* the texts between the "_" separators of a string
RECURSIVE C21_Pieces(_, _)
C21_Pieces(text, piece) ==
    IF text = <<>> THEN <<>>
    ELSE IF Head(text) = "_" THEN <<piece>> \o C21_Pieces(Tail(text), <<>>)
    ELSE C21_Pieces(Tail(text), Append(piece, Head(text)))

(* C21: for every bag and every placeholder whose chain succeeds,          *)
(* _resolve_value substitutes the string form of the value reached from    *)
(* the base name through the accessors, left to right (.key a map lookup,  *)
(* [index] a sequence lookup); an input that is no string is returned      *)
(* unchanged.                                                              *)
C21_Substitutes ==
    (engine = "RV" /\ rv_result.called) =>
        /\ rv_value.kind /= "str" => (rv_result.raised = "" /\ rv_result.ret = rv_value)
        /\ \A paths \in RV_PathLists :
              rv_value = PyText(RV_Join(paths)) =>
                \A k \in 1..Len(paths) : \A ref \in C21_Refs :
                    (C21_Render(ref) = paths[k]
                        /\ C21_Value(ref, rv_variables).kind /= "none") =>
                      /\ rv_result.raised = ""
                      /\ C21_Pieces(rv_result.ret.text, <<>>)[k]
                            = PyStr(C21_Value(ref, rv_variables))

-----------------------------------------------------------------------------
\* run_script passes its entry (lines 122-126) in this step
AS_RunStarts == \E t \in Threads : as_pc[t] = "idle" /\ as_pc'[t] = "loop"

\* the step whose handler returns in this step writes the bag by its kind
AS_WriterReturns ==
    \E t \in Threads :
        /\ as_pc[t] = "exec" /\ as_pc'[t] /= "exec"
        /\ LET step == as_steps[as_step[t] + 1]
           IN  step.type = "set_variable" \/ Has(step.save_to)

C22_Step ==
    /\ (engine = "AS" /\ AS_RunStarts) =>
            (DOMAIN as_variables' = {} /\ DOMAIN as_loop_counters' = {})
    /\ (engine = "AS" /\ as_variables' /= as_variables) => (AS_RunStarts \/ AS_WriterReturns)
    /\ engine = "RV" => rv_variables' = rv_variables

-----------------------------------------------------------------------------
\* thread t leaves the fetch of a disabled step while the run goes on
AS_SkipsDisabled(t) ==
    /\ engine = "AS"
    /\ as_pc[t] = "fetch" /\ as_pc'[t] /= "fetch"
    /\ as_running
    /\ PyIndexable(as_steps, as_current_step)
    /\ ~PyIndex(as_steps, as_current_step).enabled

C23_Skip ==
    \A t \in Threads :
        AS_SkipsDisabled(t) =>
            /\ as_current_step' = as_current_step + 1
            /\ as_pc'[t] = "loop"
            /\ UNCHANGED <<as_variables, as_loop_counters, as_trace, as_last, as_step>>

\* no handler was ever invoked for a disabled step
C23_NeverRun ==
    engine = "AS" => \A k \in 1..Len(as_trace) : as_steps[as_trace[k] + 1].enabled

(* C23: a step with enabled = false is skipped without side effect: its    *)
(* handler is not invoked, no step-start or step-end callback fires, its   *)
(* next_step / on_failure / then_step / else_step fields are not           *)
(* evaluated, the bag and the loop frames are unchanged, and the current   *)
(* index advances by exactly 1.                                            *)
C23_DisabledSkipped ==
    /\ [][C23_Skip]_vars
    /\ []C23_NeverRun

\* a disabled condition step that declares jumps to index 2 was passed over
\* and the steps 1 and 2 were executed
C23_Witness ==
    /\ engine = "AS" /\ as_steps \in DisabledPrograms
    /\ as_steps[1].type = "condition"
    /\ as_trace = <<1, 2>>
    /\ \E t \in Threads : AS_Done(t)

-----------------------------------------------------------------------------
\* the frame an end_loop step finds is that of a loop still going on
AS_ActiveFrame(f) == f.type = "while" \/ (PyComparable(f.total) /\ f.current < f.total.num)

(* C24: when an end_loop step of AutomationScript finds an active frame    *)
(* for its loop_id (a count loop with current < total, or any while loop), *)
(* the next step the run loop executes is the loop-start step at the       *)
(* frame's start index.                                                    *)
C24_EndLoopReturns ==
    engine = "AS" =>
        \A t \in Threads :
            (AS_FetchedNext(t) /\ as_steps[as_last.index + 1].type = "end_loop") =>
                LET lid == as_steps[as_last.index + 1].loop_id
                IN  (lid \in DOMAIN as_loop_counters /\ AS_ActiveFrame(as_loop_counters[lid]))
                        => as_step[t] = as_loop_counters[lid].start_step

-----------------------------------------------------------------------------
\* the stated order: next_step first, then on_failure after a failure, then + 1
C25_Stated(step, success, index) ==
    IF Has(step.next_step) THEN Val(step.next_step)
    ELSE IF ~success /\ Has(step.on_failure) THEN Val(step.on_failure)
    ELSE index + 1

(* C25: next-index resolution in AutomationScript.run_script for a step    *)
(* that is no condition: with next_step declared the next index is         *)
(* next_step whether the handler succeeded or failed; otherwise, after a   *)
(* failure with on_failure declared, it is on_failure; otherwise the index *)
(* advances by 1.                                                          *)
C25_NextIndexOrder ==
    (engine = "AS" /\ as_last.index >= 0) =>
        LET step == as_steps[as_last.index + 1]
        IN  step.type \notin {"condition", "loop", "end_loop"} =>
                as_last.next = C25_Stated(step, as_last.success, as_last.index)

-----------------------------------------------------------------------------
C26_Redirects(step) == Has(step.next_step) \/ Has(step.on_failure)

(* C26: for a condition step that also declares next_step or on_failure    *)
(* the branch result takes precedence: the index run_script continues with *)
(* is then_step when the condition is true and else_step when it is false, *)
(* and the step's next_step / on_failure is not applied in that execution. *)
C26_BranchPrecedence ==
    (engine = "AS" /\ as_last.index >= 0) =>
        LET step == as_steps[as_last.index + 1]
        IN  (IsBranch(step) /\ C26_Redirects(step)) =>
                /\ as_last.outcome = "true" => as_last.next = Val(step.then_step)
                /\ as_last.outcome = "false" => as_last.next = Val(step.else_step)

-----------------------------------------------------------------------------
\* the execution recorded in as_last is an end_loop step the run has left
\* for the index after it
AS_PastEndLoop ==
    /\ as_last.index >= 0
    /\ as_steps[as_last.index + 1].type = "end_loop"
    /\ as_last.success
    /\ as_last.next = as_last.index + 1

(* C27: a loop frame exists only while its loop is running: once a count   *)
(* loop or while loop has finished and the run has moved past its end_loop *)
(* step, loop_counters holds no frame for that loop_id.                    *)
C27_FrameRemoved ==
    (engine = "AS" /\ AS_PastEndLoop) =>
        as_steps[as_last.index + 1].loop_id \notin DOMAIN as_loop_counters

-----------------------------------------------------------------------------
\* the handler of an end_loop step that finds no frame returns in this step
AS_OrphanReturns(t) ==
    /\ engine = "AS"
    /\ as_pc[t] = "exec" /\ as_pc'[t] /= "exec"
    /\ as_steps[as_step[t] + 1].type = "end_loop"
    /\ as_steps[as_step[t] + 1].loop_id \notin DOMAIN as_loop_counters

\* success, nothing written, the next index in sequence
AS_NoOp(t) ==
    /\ as_last'.index = as_step[t] /\ as_last'.success
    /\ as_variables' = as_variables
    /\ as_loop_counters' = as_loop_counters
    /\ as_current_step' = as_step[t] + 1

-----------------------------------------------------------------------------
(* C29: whenever run_script has fetched a step, the current index lies in  *)
(* [0, len(steps)) and the fetched step is the one at that index; a jump   *)
(* value outside that range (in particular a negative one) ends the run    *)
(* instead of causing a step at another position to be executed.           *)
C29_IndexInRange ==
    engine = "AS" =>
        \A t \in Threads :
            as_pc[t] = "exec" =>
                /\ as_current_step \in 0..(Len(as_steps) - 1)
                /\ as_step[t] = as_current_step

-----------------------------------------------------------------------------
\* the inner loop step of a nested program has just run for the first time:
\* the outer loop and the inner loop are both going on
AS_BothActive ==
    /\ as_steps \in NestedPrograms
    /\ as_trace = <<0, 1>> /\ as_last.index = 1

\* some frame of loop_counters belongs to the loop step at index i
AS_FrameOf(i) ==
    \E lid \in DOMAIN as_loop_counters :
        /\ as_loop_counters[lid].start_step = i
        /\ as_loop_counters[lid].total = as_steps[i + 1].count

(* C30: two loops that are active at the same time in one run never share  *)
(* a frame: for a loop nested inside another loop, also when both carry    *)
(* the same loop_id, each loop has its own frame with its own counter and  *)
(* its own start index.                                                    *)
C30_OwnFrames ==
    (engine = "AS" /\ AS_BothActive) =>
        /\ AS_FrameOf(0) /\ AS_FrameOf(1)
        /\ Cardinality(DOMAIN as_loop_counters) = 2

-----------------------------------------------------------------------------
\* the loop-start step of an example program has run for the first time
AS_ExampleLoopRan ==
    /\ as_steps \in ExamplePrograms
    /\ as_trace = <<0, 1>> /\ as_last.index = 1

(* C31: a count loop whose count parameter is a placeholder such as        *)
(* ${retry_count}, with the variable set to the integer N by an earlier    *)
(* set_variable step, gets a frame with total = N and its loop-start step  *)
(* succeeds: the resolved count is compared with the counter as a number.  *)
C31_ResolvedCount ==
    (engine = "AS" /\ AS_ExampleLoopRan) =>
        /\ as_last.success
        /\ "main_loop" \in DOMAIN as_loop_counters
        /\ as_loop_counters["main_loop"].total = PyInt(as_steps[1].value)

-----------------------------------------------------------------------------
(* C33: in AutomationScript.run_script every executed step gets            *)
(* on_step_end(j, step, success) after its handler with j = i, the index   *)
(* at which the step was fetched and on_step_start(i, step) was given, for *)
(* every step kind including condition, loop and end_loop steps.           *)
C33_StepEndIndex ==
    (engine = "AS" /\ as_last.index >= 0) => as_last.end_index = as_last.index

-----------------------------------------------------------------------------
\* the positions of a worker at which a callback, a handler or a dispatch
\* of its session is running
SE_InCallback(w) == se_wpc[w] \in {"exec", "iter", "recwait"}
IP_InCallback(w) == ip_wpc[w] = "play"

(* C32: the worker never holds the instance lock while it invokes a        *)
(* lifecycle callback, a step handler or an event dispatch                 *)
(* (ScriptExecutor._execute_thread, InputPlayer._playback_thread), so a    *)
(* stop, pause or resume called from inside such a callback on the worker  *)
(* thread returns without blocking.                                        *)
C32_NoLockInCallbacks ==
    /\ \A w \in Workers :
         /\ SE_InCallback(w) => se_lock /= w
         /\ IP_InCallback(w) => ip_lock /= w
    /\ \A w \in Workers : se_wpc[w] /= "stuck" /\ ip_wpc[w] /= "stuck"

\* a stop called from a callback of the ScriptExecutor worker has returned
\* and the worker went on to the end of its run
C32_Witness ==
    /\ engine = "SE"
    /\ reentered /\ stopIssued /\ ~pauseIssued
    /\ \E w \in Workers : se_wpc[w] = "dead"
    /\ se_lock = 0

-----------------------------------------------------------------------------
\* the completion signal worker w waits for has a setter: the start_playback
\* call of its _execute_recording installed its on_complete
SE_SignalInstalled(w) == se_rec[w] /= 0

(* C34: ScriptExecutor._execute_recording always returns: whenever the     *)
(* recording has been loaded, the wait for the completion signal can end,  *)
(* also when InputPlayer.start_playback returns False because the player   *)
(* is already playing.  A worker that waits is never left with a signal    *)
(* that no session will set.                                               *)
C34_RecordingReturns ==
    engine = "SE" => \A w \in Workers : se_wpc[w] = "recwait" => SE_SignalInstalled(w)

-----------------------------------------------------------------------------
\* worker w dispatches an event in this step
IP_Dispatches(w) ==
    /\ Len(ip_dispatched') = Len(ip_dispatched) + 1
    /\ ip_dispatched'[Len(ip_dispatched')][1] = w

\* worker w leaves _playback_thread in this step
IP_Leaves(w) == ip_wpc[w] /= "dead" /\ ip_wpc'[w] = "dead"

\* what a worker does to the session of another worker
C35_Step ==
    \A w \in Workers :
        /\ IP_Dispatches(w) => ip_callbacks = w
        /\ (IP_Leaves(w) /\ ip_playing) => ip_callbacks = w
        /\ (IP_Leaves(w) /\ Len(ip_complete') > Len(ip_complete)) =>
              /\ ip_callbacks = w
              /\ \A k \in 1..Len(ip_complete) : ip_complete[k].callbacks /= ip_callbacks

(* C35: a worker that belongs to an earlier InputPlayer session never      *)
(* affects a later session of the same instance: after stop_playback and   *)
(* start_playback the old worker dispatches no event of the new session,   *)
(* does not set playing to false for it and does not invoke its            *)
(* on_complete, which fires at most once.                                  *)
C35_OldWorkerSilent == [][engine = "IP" => C35_Step]_vars

-----------------------------------------------------------------------------
(* C36: EventPlayer.on_stop is invoked at most once per playback session   *)
(* also when the session is ended by stop_playback: the callback fired by  *)
(* the worker's finally block and the one fired by stop_playback never     *)
(* both run for the same session.                                          *)
C36_OnStopOnce ==
    (engine = "EP" /\ starts <= 1 /\ stopIssued) => ep_on_stop <= 1

-----------------------------------------------------------------------------
(* C37: recording then replaying preserves the gaps: for a list produced   *)
(* by InputRecorder.add_event with add_waits enabled, InputPlayer at speed *)
(* s waits d/s in total between the two real events around a gap d, not    *)
(* more, so the total waiting of the replay is (t_last - t_first)/s.       *)
C37_GapsPreserved ==
    (engine = "RC" /\ rc_pc = "done") =>
        rc_slept = RC_Sleep(rc_input[Len(rc_input)] - rc_input[1], rc_speed)

-----------------------------------------------------------------------------
\* a load call arrives in this step while a session is active
LoadsDuringSession == loaded' /= loaded

(* C38: loading while a session is active does not disturb it:             *)
(* InputPlayer.load_events called during playback and                      *)
(* ScriptExecutor.load_script called during a run leave the active         *)
(* session's event list / program and its cursor / current step index      *)
(* unchanged.                                                              *)
C38_LoadKeepsSession ==
    [][LoadsDuringSession =>
          /\ engine = "IP" => UNCHANGED <<ip_events, ip_current_index>>
          /\ engine = "SE" => UNCHANGED <<se_script, se_current_step_index>>]_vars

=============================================================================
